---- MODULE Spec2Model ----
(***************************************************************************)
(* Axiom verification pipeline: risk aggregation (services/risk_engine.py), *)
(* overall-action resolution and the orchestrator                           *)
(* (services/orchestrator.py).                                              *)
(*                                                                          *)
(* Numbers.  Python floats are modelled by exact rationals:                 *)
(*   - confidences and relevances are integers in hundredths (0..100);      *)
(*   - thresholds and returned risk scores are integers in units of 1e-4    *)
(*     (0..10000), the resolution of round(risk_score, 4);                  *)
(*   - intermediate values are fractions <<num, den>> with den > 0.         *)
(* Binary floating-point rounding error (of the order 1e-16) is not         *)
(* modelled by these: an exact decimal tie of round(risk_score, 4) goes to  *)
(* the even neighbour, while the float nearest to the tie may round to      *)
(* either neighbour.                                                        *)
(*                                                                          *)
(* Where the rounding of the operations decides the result, aggregate_risk  *)
(* is computed in IEEE 754 binary64 as the interpreter computes it          *)
(* (aggregate_risk_binary64, SpecBinary64): a float is a 53-bit significand *)
(* and an exponent, and every operation rounds its exact result to the      *)
(* nearest float, half to even.                                             *)
(***************************************************************************)
EXTENDS Integers, Sequences, FiniteSets, TLC

VARIABLES
    claim,             \* aggregate_risk: the claim argument
    assessments,       \* aggregate_risk: the assessments argument
    verification,      \* aggregate_risk: the returned ClaimVerification, or NoVerification
    resolver_input,    \* determine_overall_action: the verifications argument
    resolver_output,   \* determine_overall_action: the returned action, or NoResult
    mode,              \* orchestrator: "batch" (run_verification) or "streaming"
    pc,                \* orchestrator: position of the running coroutine
    claims,            \* orchestrator: the extracted claims
    claim_idx,         \* orchestrator: index of the claim of the current iteration
    tasks,             \* orchestrator: state of agent.verify per agent, this iteration
    all_assessments,   \* orchestrator: claim id -> list of assessments
    all_verifications, \* orchestrator: the verifications so far
    session,           \* orchestrator: the VerificationSession
    events,            \* orchestrator: the WSEvents yielded so far
    calls,             \* orchestrator: number of calls made to each collaborator
    config,            \* config.config: the settings the agents and settle read
    nv_call,           \* NumericVerifier.verify: the claim and context of the call
    nv_stack,          \* NumericVerifier.verify: the frames of the call, innermost last
    nv_signal,         \* NumericVerifier.verify: the value or exception on its way up
    nv_log,            \* NumericVerifier: number of "LLM failed" lines printed
    st_args,           \* settle: the verifications and overall action of the call
    st_response,       \* settle: what the request to the Sphinx API came to
    st_result,         \* settle: the Settlement returned, or NoSettlement
    rt_call,           \* RetrieverAgent.verify: the claim and the evidence rows
    rt_result          \* RetrieverAgent.verify: the backend that served and its assessment

riskVars == <<claim, assessments, verification>>
resolverVars == <<resolver_input, resolver_output>>
orchVars == <<mode, pc, claims, claim_idx, tasks, all_assessments,
              all_verifications, session, events, calls>>
numericVars == <<nv_call, nv_stack, nv_signal, nv_log>>
settleVars == <<st_args, st_response, st_result>>
retrieverVars == <<rt_call, rt_result>>
extVars == <<config, numericVars, settleVars, retrieverVars>>
\* all but the variables of NumericVerifier.verify and config
numericRest == <<riskVars, resolverVars, orchVars, settleVars, retrieverVars>>
vars == <<claim, assessments, verification, resolver_input, resolver_output,
          mode, pc, claims, claim_idx, tasks, all_assessments,
          all_verifications, session, events, calls,
          config, nv_call, nv_stack, nv_signal, nv_log,
          st_args, st_response, st_result, rt_call, rt_result>>

NoResult == "none"

\* no ClaimVerification has been returned yet
NoVerification == [returned |-> FALSE]

\* ------------------------------------------------------------------------
\* Bounds of the model
\* ------------------------------------------------------------------------
MaxAssess == 3
MaxFindings == 1
MaxVerifications == 4
MaxClaims == 2
RecursionLimit == 4
MaxRows == 1

\* ------------------------------------------------------------------------
\* models/__init__.py
\* ------------------------------------------------------------------------
ClaimType == {"NUMERIC", "ENTITY", "EVENT", "CASE_LAW", "LEGAL", "QUOTE", "CAUSAL"}
Severity == {"CRITICAL", "HIGH", "MED", "LOW"}
Verdict == {"TRUE", "FALSE", "UNCERTAIN"}
RiskAction == {"ALLOW", "REWRITE", "BLOCK"}
AgentSide == {"LONG", "SHORT"}
FindingType == {"CONFIRMED", "CONTRADICTION", "SUPPORTS", "FLAG",
                "INCONSISTENCY", "CONSISTENT", "PATTERN", "NOT_FOUND"}

\* ------------------------------------------------------------------------
\* Exact arithmetic helpers
\* ------------------------------------------------------------------------
Min(a, b) == IF a <= b THEN a ELSE b

Max(a, b) == IF a >= b THEN a ELSE b

Abs(a) == IF a >= 0 THEN a ELSE -a

RECURSIVE GCD(_, _)
GCD(a, b) == IF b = 0 THEN a ELSE GCD(b, a % b)

\* the fraction n/d in lowest terms (d > 0, n >= 0)
Frac(n, d) == LET g == GCD(n, d) IN <<n \div g, d \div g>>

\* a/b < c/d for a, c >= 0 and b, d > 0, without forming the cross products
RECURSIVE FracLess(_, _, _, _)
FracLess(a, b, c, d) ==
    LET qa == a \div b
        qc == c \div d
        ra == a % b
        rc == c % d
    IN  IF qa # qc THEN qa < qc
        ELSE IF rc = 0 THEN FALSE
        ELSE IF ra = 0 THEN TRUE
        ELSE FracLess(d, rc, b, ra)

\* floor(x * 10^k) for the fraction x = <<n, d>>, by long division
RECURSIVE FloorScaled(_, _, _)
FloorScaled(n, d, k) ==
    IF k = 0 THEN <<n \div d, n % d>>
    ELSE LET r == FloorScaled(n, d, k - 1)
         IN  <<r[1] * 10 + (r[2] * 10) \div d, (r[2] * 10) % d>>

\* round(x, 4) of the fraction x = <<n, d>> in units of 1e-4, ties to even
Round4(x) ==
    LET r == FloorScaled(x[1], x[2], 4)
        q == r[1]
        twice == 2 * r[2]
    IN  IF twice > x[2] THEN q + 1
        ELSE IF twice < x[2] THEN q
        ELSE IF q % 2 = 0 THEN q ELSE q + 1

\* x >= t/10000 for the fraction x and an integer threshold t in units of 1e-4
AtLeast(x, t) == FloorScaled(x[1], x[2], 4)[1] >= t

RECURSIVE SumSeq(_)
SumSeq(s) == IF s = <<>> THEN 0 ELSE Head(s) + SumSeq(Tail(s))

\* the sequences over S of length at most n
RECURSIVE SeqsUpTo(_, _)
SeqsUpTo(S, n) ==
    IF n = 0 THEN {<<>>}
    ELSE LET shorter == SeqsUpTo(S, n - 1)
         IN  shorter \cup {Append(s, x) : s \in {t \in shorter : Len(t) = n - 1}, x \in S}

RECURSIVE LCMUpTo(_)
LCMUpTo(n) == IF n <= 1 THEN 1 ELSE LET l == LCMUpTo(n - 1) IN (l * n) \div GCD(l, n)

\* ------------------------------------------------------------------------
\* config.py
\* ------------------------------------------------------------------------
RISK_THRESHOLD_ALLOW == 80
RISK_THRESHOLD_REWRITE == 40

\* the settings of config.py, an API key by whether it is set
Configs ==
    [DEMO_MODE : BOOLEAN, LLM_PROVIDER : {"anthropic", "openai"},
     ANTHROPIC_API_KEY : BOOLEAN, OPENAI_API_KEY : BOOLEAN, SPHINX_API_KEY : BOOLEAN]

\* the settings with no environment variable set
DefaultConfig ==
    [DEMO_MODE |-> TRUE, LLM_PROVIDER |-> "anthropic",
     ANTHROPIC_API_KEY |-> FALSE, OPENAI_API_KEY |-> FALSE, SPHINX_API_KEY |-> FALSE]

NoSignal == [kind |-> "none"]

NoCall == [made |-> FALSE]

\* NumericVerifier.verify has not been called
NumericIdle ==
    /\ nv_call = NoCall
    /\ nv_stack = <<>>
    /\ nv_signal = NoSignal
    /\ nv_log = 0

\* Optional[Settlement] = None
NoSettlement == [settled |-> FALSE]

\* settle has not been called
SettleIdle ==
    /\ st_args = NoCall
    /\ st_response = NoCall
    /\ st_result = NoSettlement

\* RetrieverAgent.verify has not been called
RetrieverIdle ==
    /\ rt_call = NoCall
    /\ rt_result = NoCall

\* nothing but the specification's own operation is running, under the
\* default settings
ExtIdle ==
    /\ config = DefaultConfig
    /\ NumericIdle
    /\ SettleIdle
    /\ RetrieverIdle

\* ------------------------------------------------------------------------
\* services/risk_engine.py
\* ------------------------------------------------------------------------
\* agent reliability weights in tenths; .get(name, 0.8) for an unlisted name
AGENT_WEIGHTS(name) ==
    CASE name = "NumericVerifier" -> 10
      [] name = "RetrieverAgent" -> 9
      [] name = "ConsistencyBot" -> 8
      [] OTHER -> 8

\* variant: the HIGH multiplier entered as 0.90 instead of 1.10
SEVERITY_MULTIPLIERS_HighLowered(sev) ==
    CASE sev = "CRITICAL" -> 120
      [] sev = "HIGH" -> 90
      [] sev = "MED" -> 100
      [] sev = "LOW" -> 85
      [] OTHER -> 100

\* severity multipliers in hundredths; .get(severity, 1.0)
SEVERITY_MULTIPLIERS(sev) ==
    CASE sev = "CRITICAL" -> 120
      [] sev = "HIGH" -> 110
      [] sev = "MED" -> 100
      [] sev = "LOW" -> 85
      [] OTHER -> 100

\* the most findings an assessment of the model carries: MaxFindings in the
\* drawn assessments, and for ConsistencyBot one dependency finding and one
\* arithmetic or legal finding per other claim
MostFindings == Max(MaxFindings, 2 * (MaxClaims - 1))

\* common denominator of the evidence weights: evidence_weight is
\* EvidenceWeight(a) / (1000 * EvidenceScale)
EvidenceScale == LCMUpTo(MostFindings)

\* evidence_weight: 0.5 without findings, else 0.7 + 0.3 * avg_relevance
EvidenceWeight(a) ==
    LET n == Len(a.findings)
        s == SumSeq([i \in 1..n |-> a.findings[i].relevance])
    IN  IF n = 0 THEN 500 * EvidenceScale
        ELSE ((700 * n + 3 * s) * EvidenceScale) \div n

\* effective_weight = w * evidence_weight, over 10000 * EvidenceScale
EffectiveWeight(a) == AGENT_WEIGHTS(a.agent_name) * EvidenceWeight(a)

\* truth_prob in hundredths
TruthProb(a) ==
    IF a.position = "LONG" THEN a.confidence ELSE 100 - a.confidence

\* variant: weighted_sum is not divided by weight_total
WeightedMean_NotNormalised(as) ==
    LET n == Len(as)
        weighted_sum == SumSeq([i \in 1..n |-> TruthProb(as[i]) * EffectiveWeight(as[i])])
    IN  Frac(weighted_sum, 100 * 10000 * EvidenceScale)

\* Step 1: weighted_sum / weight_total as a fraction of 1
WeightedMean(as) ==
    LET n == Len(as)
        weighted_sum == SumSeq([i \in 1..n |-> TruthProb(as[i]) * EffectiveWeight(as[i])])
        weight_total == SumSeq([i \in 1..n |-> EffectiveWeight(as[i])])
    IN  IF weight_total > 0 THEN Frac(weighted_sum, 100 * weight_total)
        ELSE <<1, 2>>

CountSide(as, side) == Cardinality({i \in 1..Len(as) : as[i].position = side})

\* variant: the disagreement penalty is never applied
Disagreement_Skipped(as, risk) == risk

\* Step 2: disagreement penalty, 0.15 * minority_share = 3m / 20n
Disagreement(as, risk) ==
    LET long_count == CountSide(as, "LONG")
        short_count == CountSide(as, "SHORT")
        n == Len(as)
        m == Min(long_count, short_count)
    IN  IF long_count > 0 /\ short_count > 0
        THEN Frac(2 * risk[1] * (20 * n - 3 * m) + 3 * m * risk[2],
                  40 * n * risk[2])
        ELSE risk

\* risk_score before round(risk_score, 4)
RawRiskScore(as) == Disagreement(as, WeightedMean(as))

\* Step 3: severity-adjusted thresholds, in units of 1e-4
AdjustedAllow(sev) == Min(RISK_THRESHOLD_ALLOW * SEVERITY_MULTIPLIERS(sev), 9500)

AdjustedRewrite(sev) ==
    Min(RISK_THRESHOLD_REWRITE * SEVERITY_MULTIPLIERS(sev), AdjustedAllow(sev) - 500)

\* Decide of a Step 4 whose middle band blocks
Decide_MiddleBlocks(risk, sev) ==
    IF AtLeast(risk, AdjustedAllow(sev))
    THEN [verdict |-> "TRUE", action |-> "ALLOW"]
    ELSE IF AtLeast(risk, AdjustedRewrite(sev))
    THEN [verdict |-> "UNCERTAIN", action |-> "BLOCK"]
    ELSE [verdict |-> "FALSE", action |-> "BLOCK"]

\* Step 4: verdict and action
Decide(risk, sev) ==
    IF AtLeast(risk, AdjustedAllow(sev))
    THEN [verdict |-> "TRUE", action |-> "ALLOW"]
    ELSE IF AtLeast(risk, AdjustedRewrite(sev))
    THEN [verdict |-> "UNCERTAIN", action |-> "REWRITE"]
    ELSE [verdict |-> "FALSE", action |-> "BLOCK"]

\* Step 5: the rationale, by the branch of _generate_rationale that wrote it
GenerateRationale(verdict) ==
    CASE verdict = "FALSE" -> "scored_false"
      [] verdict = "TRUE" -> "verified"
      [] OTHER -> "insufficient_confidence"

\* variant: the early return for an empty assessment list is missing
aggregate_risk_NoEmptyCheck(c, as) ==
    LET risk == RawRiskScore(as)
        d == Decide(risk, c.severity)
    IN  [claim |-> c, risk_score |-> Round4(risk), verdict |-> d.verdict,
         action |-> d.action, rationale |-> GenerateRationale(d.verdict),
         assessments |-> as]

\* variant: Step 4 compares weighted_sum, not risk_score, with the thresholds
aggregate_risk_ComparesWeightedSum(c, as) ==
    IF as = <<>>
    THEN [claim |-> c, risk_score |-> 5000, verdict |-> "UNCERTAIN",
          action |-> "BLOCK", rationale |-> "no_assessments",
          assessments |-> as]
    ELSE LET risk == RawRiskScore(as)
             d == Decide(WeightedMean_NotNormalised(as), c.severity)
         IN  [claim |-> c, risk_score |-> Round4(risk), verdict |-> d.verdict,
              action |-> d.action, rationale |-> GenerateRationale(d.verdict),
              assessments |-> as]

aggregate_risk(c, as) ==
    IF as = <<>>
    THEN [claim |-> c, risk_score |-> 5000, verdict |-> "UNCERTAIN",
          action |-> "BLOCK", rationale |-> "no_assessments",
          assessments |-> as]
    ELSE LET risk == RawRiskScore(as)
             d == Decide(risk, c.severity)
         IN  [claim |-> c, risk_score |-> Round4(risk), verdict |-> d.verdict,
              action |-> d.action, rationale |-> GenerateRationale(d.verdict),
              assessments |-> as]

\* ------------------------------------------------------------------------
\* IEEE 754 binary64, the arithmetic of a Python float
\* ------------------------------------------------------------------------
\* F applied to the values of its arguments: an argument is computed once,
\* before F, however often F uses it
Eval1(F(_), a) == CHOOSE r \in {F(x) : x \in {a}} : TRUE

Eval2(F(_, _), a, b) == CHOOSE r \in {F(x, y) : x \in {a}, y \in {b}} : TRUE

Eval3(F(_, _, _), a, b, c) ==
    CHOOSE r \in {F(x, y, z) : x \in {a}, y \in {b}, z \in {c}} : TRUE

\* A natural number of any size is a sequence of limbs of LimbBits bits,
\* least significant first, without a leading zero limb; <<>> is zero.
RECURSIVE BitLenSmall(_)
BitLenSmall(n) == IF n = 0 THEN 0 ELSE 1 + BitLenSmall(n \div 2)

\* the product of two limbs fits a 32-bit integer
LimbBase == 2^15

LimbBits == BitLenSmall(LimbBase - 1)

\* significand width of binary64
Precision == 53

\* a without its leading zero limbs
BigNorm(a0) ==
    Eval1(LAMBDA a : SubSeq(a, 1, Max(0, CHOOSE n \in 0..Len(a) :
                                          /\ n > 0 => a[n] # 0
                                          /\ \A i \in (n + 1)..Len(a) : a[i] = 0)),
          a0)

RECURSIVE BigOf(_)
BigOf(n) == IF n = 0 THEN <<>> ELSE <<n % LimbBase>> \o BigOf(n \div LimbBase)

\* the value of a number below 2^31
SmallOf(a0) ==
    Eval1(LAMBDA a : IF a = <<>> THEN 0
                     ELSE IF Len(a) = 1 THEN a[1]
                     ELSE IF Len(a) = 2 THEN a[1] + LimbBase * a[2]
                     ELSE a[1] + LimbBase * (a[2] + LimbBase * a[3]),
          a0)

Limb(a, i) == IF i <= Len(a) THEN a[i] ELSE 0

\* a carry enters limb i of a + b when a limb below it overflows and the
\* limbs between are full
CarryInto(a, b, i) ==
    \E j \in 1..(i - 1) :
        /\ Limb(a, j) + Limb(b, j) >= LimbBase
        /\ \A k \in (j + 1)..(i - 1) : Limb(a, k) + Limb(b, k) = LimbBase - 1

BigAdd(a0, b0) ==
    Eval2(LAMBDA a, b :
              BigNorm([i \in 1..(Max(Len(a), Len(b)) + 1) |->
                          (Limb(a, i) + Limb(b, i)
                           + (IF CarryInto(a, b, i) THEN 1 ELSE 0)) % LimbBase]),
          a0, b0)

\* limb i of a - b borrows when a limb below it is short and the limbs
\* between are equal
BorrowInto(a, b, i) ==
    \E j \in 1..(i - 1) :
        /\ Limb(a, j) < Limb(b, j)
        /\ \A k \in (j + 1)..(i - 1) : Limb(a, k) = Limb(b, k)

\* a - b for a >= b
BigSub(a0, b0) ==
    Eval2(LAMBDA a, b :
              BigNorm([i \in 1..Len(a) |->
                          (a[i] - Limb(b, i)
                           - (IF BorrowInto(a, b, i) THEN 1 ELSE 0)) % LimbBase]),
          a0, b0)

BigLess(a0, b0) ==
    Eval2(LAMBDA a, b :
              IF Len(a) # Len(b) THEN Len(a) < Len(b)
              ELSE \E i \in 1..Len(a) :
                       /\ a[i] < b[i]
                       /\ \A j \in (i + 1)..Len(a) : a[j] = b[j],
          a0, b0)

\* a * d for one limb d: the low halves of the limb products plus their
\* high halves one limb up
BigMulLimb(a0, d0) ==
    Eval2(LAMBDA a, d :
              BigAdd(BigNorm([i \in 1..Len(a) |-> (a[i] * d) % LimbBase]),
                     BigNorm([i \in 1..(Len(a) + 1) |->
                                 IF i = 1 THEN 0 ELSE (a[i - 1] * d) \div LimbBase])),
          a0, d0)

\* a * (limbs i.. of b)
RECURSIVE BigMulFrom(_, _, _)
BigMulFrom(a, b, i) ==
    IF i > Len(b) THEN <<>>
    ELSE Eval1(LAMBDA high : BigAdd(BigMulLimb(a, b[i]),
                                    IF high = <<>> THEN high ELSE <<0>> \o high),
               BigMulFrom(a, b, i + 1))

BigMul(a0, b0) == Eval2(LAMBDA a, b : BigMulFrom(a, b, 1), a0, b0)

BitLen(a0) ==
    Eval1(LAMBDA a : IF a = <<>> THEN 0
                     ELSE LimbBits * (Len(a) - 1) + BitLenSmall(a[Len(a)]),
          a0)

\* a * 2^k
BigShl(a0, k0) ==
    Eval2(LAMBDA a, k : IF a = <<>> THEN a
                        ELSE [i \in 1..(k \div LimbBits) |-> 0]
                             \o BigMulLimb(a, 2^(k % LimbBits)),
          a0, k0)

\* floor(a / 2^k)
BigShr(a0, k0) ==
    Eval2(LAMBDA a, k :
              Eval2(LAMBDA d, p :
                        BigNorm([i \in 1..Len(d) |->
                                    (d[i] \div p)
                                    + (Limb(d, i + 1) % p) * (LimbBase \div p)]),
                    SubSeq(a, (k \div LimbBits) + 1, Len(a)), 2^(k % LimbBits)),
          a0, k0)

\* bit k of a, bit 0 the least significant
BigBit(a0, k0) ==
    Eval2(LAMBDA a, k : (Limb(a, (k \div LimbBits) + 1) \div 2^(k % LimbBits)) % 2,
          a0, k0)

\* a is a multiple of 2^k
BigLowZero(a0, k0) == Eval2(LAMBDA a, k : BigShl(BigShr(a, k), k) = a, a0, k0)

\* the largest t with d * t <= n, for n < d * LimbBase and the leading limb
\* of d at least LimbBase / 2: the quotient of the leading limbs is t, t + 1
\* or t + 2
QuotientLimb(n0, d0) ==
    Eval2(LAMBDA n, d :
              Eval1(LAMBDA t :
                        IF ~BigLess(n, BigMulLimb(d, t)) THEN t
                        ELSE IF ~BigLess(n, BigMulLimb(d, t - 1)) THEN t - 1
                        ELSE t - 2,
                    Min(LimbBase - 1,
                        (Limb(n, Len(d) + 1) * LimbBase + Limb(n, Len(d)))
                            \div d[Len(d)])),
          n0, d0)

\* <<quotient, remainder>> of the limbs i.. of n by d, long division
RECURSIVE BigDivFrom(_, _, _)
BigDivFrom(n, d, i) ==
    IF i > Len(n) THEN <<<<>>, <<>>>>
    ELSE Eval1(LAMBDA above :
                   Eval1(LAMBDA cur :
                             Eval1(LAMBDA t : <<BigNorm(<<t>> \o above[1]),
                                                BigSub(cur, BigMulLimb(d, t))>>,
                                   QuotientLimb(cur, d)),
                         BigNorm(<<n[i]>> \o above[2])),
               BigDivFrom(n, d, i + 1))

\* <<floor(n / d), n mod d>> for d > 0: n and d are scaled to make the
\* leading limb of d at least LimbBase / 2
BigDivMod(n0, d0) ==
    Eval2(LAMBDA n, d :
              Eval1(LAMBDA k :
                        Eval1(LAMBDA qr : <<qr[1], BigShr(qr[2], k)>>,
                              BigDivFrom(BigShl(n, k), BigShl(d, k), 1)),
                    LimbBits * Len(d) - BitLen(d)),
          n0, d0)

\* A float that is not negative, not infinite and not subnormal is
\* [m, e] with value m * 2^e, where m is zero or has Precision bits.
FZero == [m |-> <<>>, e |-> 0]

\* the float nearest to (q + f) * 2^e, round half to even; sticky says
\* that the fraction f, 0 <= f < 1, is not zero, and then q has more than
\* Precision + 1 bits
RoundBits(q0, sticky0, e0) ==
    Eval3(LAMBDA q, sticky, e :
              IF q = <<>> THEN FZero
              ELSE IF BitLen(q) <= Precision
              THEN [m |-> BigShl(q, Precision - BitLen(q)),
                    e |-> e - (Precision - BitLen(q))]
              ELSE Eval2(LAMBDA x, m0 :
                             Eval1(LAMBDA m1 :
                                       IF BitLen(m1) > Precision
                                       THEN [m |-> BigShr(m1, 1), e |-> e + x + 1]
                                       ELSE [m |-> m1, e |-> e + x],
                                   IF /\ BigBit(q, x - 1) = 1
                                      /\ \/ sticky
                                         \/ ~BigLowZero(q, x - 1)
                                         \/ BigBit(m0, 0) = 1
                                   THEN BigAdd(m0, <<1>>) ELSE m0),
                         BitLen(q) - Precision, BigShr(q, BitLen(q) - Precision)),
          q0, sticky0, e0)

\* the float nearest to (n / d) * 2^e
RoundRat(n0, d0, e0) ==
    Eval3(LAMBDA n, d, e :
              Eval1(LAMBDA s :
                        Eval1(LAMBDA qr : RoundBits(qr[1], qr[2] # <<>>, e - s),
                              BigDivMod(BigShl(n, s), d)),
                    Max(0, Precision + 2 + BitLen(d) - BitLen(n))),
          n0, d0, e0)

\* float(n) of an int
FOf(n) == RoundBits(BigOf(n), FALSE, 0)

FAdd(x0, y0) ==
    Eval2(LAMBDA x, y :
              IF x.m = <<>> THEN y
              ELSE IF y.m = <<>> THEN x
              ELSE RoundBits(BigAdd(BigShl(x.m, x.e - Min(x.e, y.e)),
                                    BigShl(y.m, y.e - Min(x.e, y.e))),
                             FALSE, Min(x.e, y.e)),
          x0, y0)

FLess(x0, y0) ==
    Eval2(LAMBDA x, y :
              IF y.m = <<>> THEN FALSE
              ELSE IF x.m = <<>> THEN TRUE
              ELSE IF x.e # y.e THEN x.e < y.e
              ELSE BigLess(x.m, y.m),
          x0, y0)

\* x - y for x >= y
FSub(x0, y0) ==
    Eval2(LAMBDA x, y :
              IF y.m = <<>> THEN x
              ELSE RoundBits(BigSub(BigShl(x.m, x.e - Min(x.e, y.e)),
                                    BigShl(y.m, y.e - Min(x.e, y.e))),
                             FALSE, Min(x.e, y.e)),
          x0, y0)

FMul(x0, y0) ==
    Eval2(LAMBDA x, y : RoundBits(BigMul(x.m, y.m), FALSE, x.e + y.e), x0, y0)

\* x / y for y > 0
FDiv(x0, y0) ==
    Eval2(LAMBDA x, y : IF x.m = <<>> THEN FZero ELSE RoundRat(x.m, y.m, x.e - y.e),
          x0, y0)

FMin(x0, y0) == Eval2(LAMBDA x, y : IF FLess(y, x) THEN y ELSE x, x0, y0)

\* the literal n/d of the source text, d a power of ten: the float nearest to it
Decimal(n, d) == FDiv(FOf(n), FOf(d))

\* round(x, 4) in units of 1e-4, for 1e-4 <= x < 2^31 / 1e4 or x = 0: Python
\* rounds the exact value of the float, half to even
FRound4(x0) ==
    Eval1(LAMBDA x :
              IF x.m = <<>> THEN 0
              ELSE Eval2(LAMBDA n, k :
                             Eval1(LAMBDA q :
                                       IF /\ BigBit(n, k - 1) = 1
                                          /\ ~BigLowZero(n, k - 1) \/ q % 2 = 1
                                       THEN q + 1 ELSE q,
                                   SmallOf(BigShr(n, k))),
                         BigMul(x.m, BigOf(10000)), -x.e),
          x0)

\* ------------------------------------------------------------------------
\* aggregate_risk in binary64: the steps of services/risk_engine.py with
\* the rounding of every operation
\* ------------------------------------------------------------------------
\* the literals of the source in hundredths and in tenths
Hundredths == [n \in 0..120 |-> Decimal(n, 100)]

Tenths == [n \in 0..10 |-> Decimal(n, 10)]

\* sum(f.relevance for f in a.findings) over the first i findings, added
\* from the left
RECURSIVE RelevanceSum(_, _)
RelevanceSum(fs, i) ==
    IF i = 0 THEN FZero
    ELSE FAdd(RelevanceSum(fs, i - 1), Hundredths[fs[i].relevance])

\* evidence_weight: 0.5 without findings, else 0.7 + 0.3 * avg_relevance
EvidenceWeight64(a) ==
    LET n == Len(a.findings)
    IN  IF n = 0 THEN Hundredths[50]
        ELSE FAdd(Hundredths[70],
                  FMul(Hundredths[30], FDiv(RelevanceSum(a.findings, n), FOf(n))))

\* effective_weight = w * evidence_weight
EffectiveWeight64(a) ==
    FMul(Tenths[AGENT_WEIGHTS(a.agent_name)], EvidenceWeight64(a))

\* truth_prob: confidence for LONG, 1.0 - confidence for SHORT
TruthProb64(a) ==
    IF a.position = "LONG" THEN Hundredths[a.confidence]
    ELSE FSub(FOf(1), Hundredths[a.confidence])

\* <<weighted_sum, weight_total>> after the first i iterations of the loop
RECURSIVE WeightedSums64(_, _)
WeightedSums64(as, i) ==
    IF i = 0 THEN <<FZero, FZero>>
    ELSE Eval2(LAMBDA s, effective_weight :
                   <<FAdd(s[1], FMul(TruthProb64(as[i]), effective_weight)),
                     FAdd(s[2], effective_weight)>>,
               WeightedSums64(as, i - 1), EffectiveWeight64(as[i]))

\* Step 1: weighted_sum / weight_total
WeightedMean64(as) ==
    Eval1(LAMBDA s : IF FLess(FZero, s[2]) THEN FDiv(s[1], s[2]) ELSE Hundredths[50],
          WeightedSums64(as, Len(as)))

\* Step 2: risk_score * (1 - disagreement_penalty) + 0.5 * disagreement_penalty
Disagreement64(as, risk) ==
    LET long_count == CountSide(as, "LONG")
        short_count == CountSide(as, "SHORT")
    IN  IF long_count > 0 /\ short_count > 0
        THEN Eval1(LAMBDA disagreement_penalty :
                       FAdd(FMul(risk, FSub(FOf(1), disagreement_penalty)),
                            FMul(Hundredths[50], disagreement_penalty)),
                   FMul(FDiv(FOf(Min(long_count, short_count)), FOf(Len(as))),
                        Hundredths[15]))
        ELSE risk

\* Step 3: the clamped thresholds
AdjustedAllow64(sev) ==
    FMin(FMul(Hundredths[RISK_THRESHOLD_ALLOW], Hundredths[SEVERITY_MULTIPLIERS(sev)]),
         Hundredths[95])

AdjustedRewrite64(sev) ==
    FMin(FMul(Hundredths[RISK_THRESHOLD_REWRITE], Hundredths[SEVERITY_MULTIPLIERS(sev)]),
         FSub(AdjustedAllow64(sev), Hundredths[5]))

\* Step 4: verdict and action, risk_score >= threshold
Decide64(risk, sev) ==
    IF ~FLess(risk, AdjustedAllow64(sev))
    THEN [verdict |-> "TRUE", action |-> "ALLOW"]
    ELSE IF ~FLess(risk, AdjustedRewrite64(sev))
    THEN [verdict |-> "UNCERTAIN", action |-> "REWRITE"]
    ELSE [verdict |-> "FALSE", action |-> "BLOCK"]

\* aggregate_risk as the interpreter computes it; risk_score in units of 1e-4
aggregate_risk_binary64(c, as) ==
    IF as = <<>>
    THEN [claim |-> c, risk_score |-> 5000, verdict |-> "UNCERTAIN",
          action |-> "BLOCK", rationale |-> "no_assessments",
          assessments |-> as]
    ELSE Eval1(LAMBDA risk :
                   Eval1(LAMBDA d :
                             [claim |-> c, risk_score |-> FRound4(risk),
                              verdict |-> d.verdict, action |-> d.action,
                              rationale |-> GenerateRationale(d.verdict),
                              assessments |-> as],
                         Decide64(risk, c.severity)),
               Disagreement64(as, WeightedMean64(as)))

\* variant: the rewrite rule is evaluated before the critical/high block rule
determine_overall_action_RewriteFirst(verifications) ==
    LET n == Len(verifications)
    IN  IF verifications = <<>> THEN "BLOCK"
        ELSE IF \E i \in 1..n : verifications[i].action = "REWRITE" THEN "REWRITE"
        ELSE IF \E i \in 1..n :
                    /\ verifications[i].action = "BLOCK"
                    /\ verifications[i].claim.severity \in {"CRITICAL", "HIGH"}
        THEN "BLOCK"
        ELSE IF \E i \in 1..n : verifications[i].action = "BLOCK" THEN "REWRITE"
        ELSE "ALLOW"

\* variant: the rule for a blocked lower-severity claim is missing
determine_overall_action_NoLowBlockRule(verifications) ==
    LET n == Len(verifications)
    IN  IF verifications = <<>> THEN "BLOCK"
        ELSE IF \E i \in 1..n :
                    /\ verifications[i].action = "BLOCK"
                    /\ verifications[i].claim.severity \in {"CRITICAL", "HIGH"}
        THEN "BLOCK"
        ELSE IF \E i \in 1..n : verifications[i].action = "REWRITE" THEN "REWRITE"
        ELSE "ALLOW"

determine_overall_action(verifications) ==
    LET n == Len(verifications)
    IN  IF verifications = <<>> THEN "BLOCK"
        ELSE IF \E i \in 1..n :
                    /\ verifications[i].action = "BLOCK"
                    /\ verifications[i].claim.severity \in {"CRITICAL", "HIGH"}
        THEN "BLOCK"
        ELSE IF \E i \in 1..n : verifications[i].action = "REWRITE" THEN "REWRITE"
        ELSE IF \E i \in 1..n : verifications[i].action = "BLOCK" THEN "REWRITE"
        ELSE "ALLOW"

\* ------------------------------------------------------------------------
\* agents/__init__.py, agents/base.py
\* ------------------------------------------------------------------------
ALL_AGENTS == <<"NumericVerifier", "RetrieverAgent", "ConsistencyBot">>

AgentIdx == 1..Len(ALL_AGENTS)

\* TimedAssessment of an agent that labels every assessment with the id of
\* the first claim
TimedAssessment_FirstId(agent, c, position, confidence, findings) ==
    [agent_name |-> agent, claim_id |-> 1, position |-> position,
     confidence |-> confidence, findings |-> findings]

\* BaseAgent._timed_assessment: the assessment an agent returns for claim c
TimedAssessment(agent, c, position, confidence, findings) ==
    [agent_name |-> agent, claim_id |-> c.id, position |-> position,
     confidence |-> confidence, findings |-> findings]

\* ------------------------------------------------------------------------
\* services/sphinx_oracle.py
\* ------------------------------------------------------------------------
CountVerdict(vs, verdict) == Cardinality({i \in 1..Len(vs) : vs[i].verdict = verdict})

\* number of findings of the verifications vs whose type is in types
RECURSIVE CountFindings(_, _)
CountFindings(vs, types) ==
    IF vs = <<>> THEN 0
    ELSE LET as == Head(vs).assessments
             perAssessment ==
                 [i \in 1..Len(as) |->
                     Cardinality({j \in 1..Len(as[i].findings) :
                                      as[i].findings[j].type \in types})]
         IN  SumSeq(perAssessment) + CountFindings(Tail(vs), types)

\* _settle_local: confidence by the case table on the claim verdicts
SettleConfidence(vs) ==
    LET false_claims == CountVerdict(vs, "FALSE")
        true_claims == CountVerdict(vs, "TRUE")
    IN  IF false_claims > 0 /\ true_claims = 0 THEN 95
        ELSE IF false_claims > 0 THEN 90
        ELSE IF true_claims > 0 /\ true_claims = Len(vs) THEN 97
        ELSE 75

\* settle_local of a tally whose neutral bucket takes flags only
settle_local_FlagsOnly(vs, overall_action) ==
    [settled |-> TRUE,
     oracle |-> "Sphinx Reasoning Engine",
     confidence |-> SettleConfidence(vs),
     evidence_supporting |-> CountFindings(vs, {"CONFIRMED", "SUPPORTS", "CONSISTENT"}),
     evidence_contradicting |->
         CountFindings(vs, {"CONTRADICTION", "NOT_FOUND", "INCONSISTENCY"}),
     evidence_neutral |-> CountFindings(vs, {"FLAG"}),
     recommendation |-> overall_action]

settle_local(vs, overall_action) ==
    [settled |-> TRUE,
     oracle |-> "Sphinx Reasoning Engine",
     confidence |-> SettleConfidence(vs),
     evidence_supporting |-> CountFindings(vs, {"CONFIRMED", "SUPPORTS", "CONSISTENT"}),
     evidence_contradicting |->
         CountFindings(vs, {"CONTRADICTION", "NOT_FOUND", "INCONSISTENCY"}),
     evidence_neutral |-> CountFindings(vs, {"FLAG", "PATTERN"}),
     \* the recommendation text, by the branch on overall_action that builds it
     recommendation |-> overall_action]

\* the JSON objects the Sphinx API may answer with: nothing asked for, an
\* error body, a confidence alone (in range or not), or every field
SphinxObjects ==
    {<<>>,
     [error |-> "rate_limited"],
     [confidence |-> 42],
     [confidence |-> 170],
     [confidence |-> 88, supporting |-> 3, contradicting |-> 1, neutral |-> 0,
      recommendation |-> "sphinx_recommendation"]}

\* what the request to the Sphinx API may come to: it raises, the body is
\* not JSON, the JSON is not an object, the object has a field Settlement
\* rejects (a confidence that is not a number), or it is one of SphinxObjects
SphinxOutcomes ==
    {[status |-> "request_failed"], [status |-> "not_json"],
     [status |-> "not_object"], [status |-> "invalid_type"]}
    \cup [status : {"object"}, data : SphinxObjects]

\* data.get(key, default)
DataGet(data, key, default) == IF key \in DOMAIN data THEN data[key] ELSE default

\* _settle_sphinx: the Settlement built from the response, each field by
\* data.get with its default; _settle_local on any exception
settle_sphinx(vs, overall_action, r) ==
    IF r.status = "object"
    THEN [settled |-> TRUE,
          oracle |-> "Sphinx Reasoning Engine",
          confidence |-> DataGet(r.data, "confidence", 90),
          evidence_supporting |-> DataGet(r.data, "supporting", 0),
          evidence_contradicting |-> DataGet(r.data, "contradicting", 0),
          evidence_neutral |-> DataGet(r.data, "neutral", 0),
          recommendation |-> DataGet(r.data, "recommendation", "Review required.")]
    ELSE settle_local(vs, overall_action)

\* settle under the settings cfg, r being what the request comes to if made
settle(cfg, vs, overall_action, r) ==
    IF ~cfg.DEMO_MODE /\ cfg.SPHINX_API_KEY
    THEN settle_sphinx(vs, overall_action, r)
    ELSE settle_local(vs, overall_action)

\* ------------------------------------------------------------------------
\* services/orchestrator.py
\* ------------------------------------------------------------------------
Pending == [status |-> "pending"]
Running == [status |-> "running"]
Raised == [status |-> "raised"]
ReturnedWith(a) == [status |-> "returned", value |-> a]

NoTasks == [i \in AgentIdx |-> Pending]

NoCalls == [verify |-> 0, aggregate_risk |-> 0, determine_overall_action |-> 0, settle |-> 0]

NewSession == [claims |-> <<>>, verifications |-> <<>>,
               settlement |-> NoSettlement, overall_action |-> "none"]

\* the orchestrator has not been called
OrchIdle ==
    /\ mode = "batch"
    /\ pc = "idle"
    /\ claims = <<>>
    /\ claim_idx = 0
    /\ tasks = NoTasks
    /\ all_assessments = <<>>
    /\ all_verifications = <<>>
    /\ session = NewSession
    /\ events = <<>>
    /\ calls = NoCalls

\* DictPut of an assignment that starts a new dict with the one entry
DictPut_Fresh(dict, id, as) == [k \in {id} |-> as]

\* all_assessments[id] = as, as a dict assignment
DictPut(dict, id, as) == [k \in DOMAIN dict \cup {id} |-> IF k = id THEN as ELSE dict[k]]

\* the WSEvents, by the fields the properties read
SessionCreatedEvent == [type |-> "session_created"]
ClaimsExtractedEvent(cs) == [type |-> "claims_extracted", claims |-> cs]
ActionEvent(a) == [type |-> "action", action |-> a]
AgentQuoteEvent(a) ==
    [type |-> "agent_quote", claim_id |-> a.claim_id, agent_name |-> a.agent_name,
     position |-> a.position, confidence |-> a.confidence]
RiskUpdateEvent(v) ==
    [type |-> "risk_update", claim_id |-> v.claim.id, risk_score |-> v.risk_score,
     verdict |-> v.verdict, action |-> v.action]
SettlementEvent(st, overall_action) ==
    [type |-> "settlement", confidence |-> st.confidence, overall_action |-> overall_action]

Emit(e) == IF mode = "streaming" THEN Append(events, e) ELSE events

\* CurrentClaim of a loop that walks the claims from the last to the first
CurrentClaim_Reversed == claims[Len(claims) + 1 - claim_idx]

\* the claim of the current iteration of the loop over claims
CurrentClaim == claims[claim_idx]

\* context["other_claims"] for claim c
OtherClaims(c) == SelectSeq(claims, LAMBDA x : x.id # c.id)

\* number of the findings whose type is one of types
CountFindingTypes(findings, types) ==
    Cardinality({i \in 1..Len(findings) : findings[i].type \in types})

\* ------------------------------------------------------------------------
\* agents/numeric_verifier.py
\* A call of verify is followed frame by frame: verify and _verify_with_llm
\* call each other, and the interpreter refuses a call (RecursionError) once
\* RecursionLimit frames are on the stack. The text of the claim is kept by
\* the numbers _extract_numbers finds in it.
\* ------------------------------------------------------------------------
Frame(fn, at, old_mode) == [fn |-> fn, at |-> at, old_mode |-> old_mode]

ReturnSignal(a) == [kind |-> "return", value |-> a]

RaiseSignal == [kind |-> "raise"]

\* the frame on top of the stack
TopFrame == nv_stack[Len(nv_stack)]

\* the stack with its top frame removed / replaced / with one more frame
Popped == SubSeq(nv_stack, 1, Len(nv_stack) - 1)

Replaced(f) == [nv_stack EXCEPT ![Len(nv_stack)] = f]

\* whether the interpreter accepts one more call
CanCall == Len(nv_stack) < RecursionLimit

\* the findings of the red-flag checks over the extracted numbers
RECURSIVE NumberFlags(_)
NumberFlags(numbers) ==
    IF numbers = <<>> THEN <<>>
    ELSE LET n == Head(numbers)
         IN  (IF n.unit = "%" /\ n.num > 25
              THEN <<[type |-> "FLAG", relevance |-> 84]>> ELSE <<>>)
             \o (IF n.unit = "billion" /\ n.num > 1
                 THEN <<[type |-> "FLAG", relevance |-> 90]>> ELSE <<>>)
             \o NumberFlags(Tail(numbers))

\* the findings of the comparison with context["ground_truth"]
RECURSIVE GroundTruthFindings(_, _)
GroundTruthFindings(numbers, gt) ==
    IF numbers = <<>> THEN <<>>
    ELSE LET n == Head(numbers)
         IN  (IF n.unit = "%" /\ gt.has_actual_pct /\ Abs(n.num - gt.actual_pct) > 5
              THEN <<[type |-> "CONTRADICTION", relevance |-> 97]>> ELSE <<>>)
             \o GroundTruthFindings(Tail(numbers), gt)

\* HeuristicAssessment of a scoring in which flags alone do not turn the
\* position
HeuristicAssessment_FlagsBelieved(c, context) ==
    IF c.type = "CASE_LAW"
    THEN TimedAssessment("NumericVerifier", c, "SHORT", 94,
                         <<[type |-> "NOT_FOUND", relevance |-> 97]>>)
    ELSE LET findings ==
                 NumberFlags(c.text.numbers)
                 \o (IF context.has_ground_truth
                     THEN GroundTruthFindings(c.text.numbers, context.ground_truth)
                     ELSE <<>>)
             contradictions == CountFindingTypes(findings, {"CONTRADICTION", "NOT_FOUND"})
         IN  IF contradictions > 0
             THEN TimedAssessment("NumericVerifier", c, "SHORT",
                                  Min(95, 70 + contradictions * 12), findings)
             ELSE TimedAssessment("NumericVerifier", c, "LONG", 65,
                                  Append(findings, [type |-> "CONFIRMED", relevance |-> 70]))

\* the demo / heuristic path of verify
HeuristicAssessment(c, context) ==
    IF c.type = "CASE_LAW"
    THEN TimedAssessment("NumericVerifier", c, "SHORT", 94,
                         <<[type |-> "NOT_FOUND", relevance |-> 97]>>)
    ELSE LET findings ==
                 NumberFlags(c.text.numbers)
                 \o (IF context.has_ground_truth
                     THEN GroundTruthFindings(c.text.numbers, context.ground_truth)
                     ELSE <<>>)
             contradictions == CountFindingTypes(findings, {"CONTRADICTION", "NOT_FOUND"})
             flags == CountFindingTypes(findings, {"FLAG"})
         IN  IF contradictions > 0
             THEN TimedAssessment("NumericVerifier", c, "SHORT",
                                  Min(95, 70 + contradictions * 12), findings)
             ELSE IF flags > 0
             THEN TimedAssessment("NumericVerifier", c, "SHORT",
                                  Min(80, 50 + flags * 15), findings)
             ELSE TimedAssessment("NumericVerifier", c, "LONG", 65,
                                  Append(findings, [type |-> "CONFIRMED", relevance |-> 70]))

\* what the request to the LLM may come to: the request fails, the body is
\* not the JSON asked for, or it parses to a result with these fields
LLMOutcomes ==
    {[status |-> "request_failed"], [status |-> "malformed"]}
    \cup [status : {"parsed"}, position : {"LONG", "SHORT", "MAYBE"}, confidence : {88, 170}]

\* AgentSide(result["position"]) and the Field(ge=0.0, le=1.0) of confidence
ValidResult(r) == r.position \in AgentSide /\ r.confidence >= 0 /\ r.confidence <= 100

LLMAssessment(c, r) == TimedAssessment("NumericVerifier", c, r.position, r.confidence, <<>>)

\* verify, from its entry to the await of _verify_with_llm or to its return
VerifyEnter ==
    /\ nv_stack # <<>>
    /\ TopFrame.fn = "verify" /\ TopFrame.at = "entry"
    /\ nv_signal = NoSignal
    /\ IF ~CanCall
       THEN \* the call of _extract_numbers is refused
            /\ nv_stack' = Popped
            /\ nv_signal' = RaiseSignal
       ELSE IF ~config.DEMO_MODE /\ (config.ANTHROPIC_API_KEY \/ config.OPENAI_API_KEY)
       THEN /\ nv_stack' = Append(Replaced(Frame("verify", "await_llm", FALSE)),
                                  Frame("_verify_with_llm", "try", FALSE))
            /\ nv_signal' = NoSignal
       ELSE /\ nv_stack' = Popped
            /\ nv_signal' = ReturnSignal(HeuristicAssessment(nv_call.claim, nv_call.context))
    /\ UNCHANGED <<config, nv_call, nv_log>>
    /\ UNCHANGED numericRest

\* verify: return await self._verify_with_llm(...) gets its value or exception
VerifyResume ==
    /\ nv_stack # <<>>
    /\ TopFrame.fn = "verify" /\ TopFrame.at = "await_llm"
    /\ nv_signal # NoSignal
    /\ nv_stack' = Popped
    /\ UNCHANGED <<config, nv_call, nv_signal, nv_log>>
    /\ UNCHANGED numericRest

\* _verify_with_llm: the body of the try block
LlmTry ==
    /\ nv_stack # <<>>
    /\ TopFrame.fn = "_verify_with_llm" /\ TopFrame.at = "try"
    /\ nv_signal = NoSignal
    /\ IF config.LLM_PROVIDER = "anthropic"
       THEN \E r \in LLMOutcomes :
                IF r.status = "parsed" /\ ValidResult(r)
                THEN /\ nv_stack' = Popped
                     /\ nv_signal' = ReturnSignal(LLMAssessment(nv_call.claim, r))
                ELSE /\ nv_stack' = Replaced(Frame("_verify_with_llm", "except", FALSE))
                     /\ nv_signal' = NoSignal
       ELSE IF CanCall
       THEN /\ nv_stack' = Append(Replaced(Frame("_verify_with_llm", "await_verify", FALSE)),
                                  Frame("verify", "entry", FALSE))
            /\ nv_signal' = NoSignal
       ELSE /\ nv_stack' = Replaced(Frame("_verify_with_llm", "except", FALSE))
            /\ nv_signal' = NoSignal
    /\ UNCHANGED <<config, nv_call, nv_log>>
    /\ UNCHANGED numericRest

\* _verify_with_llm: return await self.verify(...) inside the try block gets
\* its value, or its exception, which the except clause catches
LlmTryResume ==
    /\ nv_stack # <<>>
    /\ TopFrame.fn = "_verify_with_llm" /\ TopFrame.at = "await_verify"
    /\ nv_signal # NoSignal
    /\ IF nv_signal.kind = "return"
       THEN nv_stack' = Popped /\ nv_signal' = nv_signal
       ELSE /\ nv_stack' = Replaced(Frame("_verify_with_llm", "except", FALSE))
            /\ nv_signal' = NoSignal
    /\ UNCHANGED <<config, nv_call, nv_log>>
    /\ UNCHANGED numericRest

\* LlmExcept of a handler that calls verify again without forcing demo mode
LlmExcept_KeepsMode ==
    /\ nv_stack # <<>>
    /\ TopFrame.fn = "_verify_with_llm" /\ TopFrame.at = "except"
    /\ nv_log' = nv_log + 1
    /\ config' = config
    /\ IF CanCall
       THEN /\ nv_stack' = Append(Replaced(Frame("_verify_with_llm", "await_fallback",
                                                 config.DEMO_MODE)),
                                  Frame("verify", "entry", FALSE))
            /\ nv_signal' = NoSignal
       ELSE /\ nv_stack' = Popped
            /\ nv_signal' = RaiseSignal
    /\ UNCHANGED nv_call
    /\ UNCHANGED numericRest

\* _verify_with_llm: the except clause prints, saves DEMO_MODE, sets it and
\* calls verify again
LlmExcept ==
    /\ nv_stack # <<>>
    /\ TopFrame.fn = "_verify_with_llm" /\ TopFrame.at = "except"
    /\ nv_log' = nv_log + 1
    /\ config' = [config EXCEPT !.DEMO_MODE = TRUE]
    /\ IF CanCall
       THEN /\ nv_stack' = Append(Replaced(Frame("_verify_with_llm", "await_fallback",
                                                 config.DEMO_MODE)),
                                  Frame("verify", "entry", FALSE))
            /\ nv_signal' = NoSignal
       ELSE \* the call of verify is refused inside the handler
            /\ nv_stack' = Popped
            /\ nv_signal' = RaiseSignal
    /\ UNCHANGED nv_call
    /\ UNCHANGED numericRest

\* _verify_with_llm: the handler's verify returns, DEMO_MODE is put back and
\* the result returned; an exception of it leaves the handler at once
LlmExceptResume ==
    /\ nv_stack # <<>>
    /\ TopFrame.fn = "_verify_with_llm" /\ TopFrame.at = "await_fallback"
    /\ nv_signal # NoSignal
    /\ config' = IF nv_signal.kind = "return"
                 THEN [config EXCEPT !.DEMO_MODE = TopFrame.old_mode]
                 ELSE config
    /\ nv_stack' = Popped
    /\ UNCHANGED <<nv_call, nv_signal, nv_log>>
    /\ UNCHANGED numericRest

\* the claims and contexts verify is called with
NumericTexts ==
    {[numbers |-> <<>>],
     [numbers |-> <<[num |-> 32, unit |-> "%"]>>],
     [numbers |-> <<[num |-> 7, unit |-> "%"], [num |-> 2, unit |-> "billion"]>>],
     [numbers |-> <<[num |-> 32, unit |-> "%"], [num |-> 2, unit |-> "billion"],
                    [num |-> 40, unit |-> "%"]>>]}

NumericClaims ==
    [id : {1}, type : {"CASE_LAW", "NUMERIC"}, severity : {"HIGH"}, text : NumericTexts]

NumericContexts ==
    {[has_ground_truth |-> FALSE],
     [has_ground_truth |-> TRUE, ground_truth |-> [has_actual_pct |-> TRUE, actual_pct |-> 8]],
     [has_ground_truth |-> TRUE, ground_truth |-> [has_actual_pct |-> TRUE, actual_pct |-> 30]]}

InitNumeric ==
    /\ config \in {c \in Configs : ~c.SPHINX_API_KEY}
    /\ nv_call \in [made : {TRUE}, claim : NumericClaims, context : NumericContexts]
    /\ nv_stack = <<Frame("verify", "entry", FALSE)>>
    /\ nv_signal = NoSignal
    /\ nv_log = 0
    /\ claim = [id |-> 1, type |-> "NUMERIC", severity |-> "MED"]
    /\ assessments = <<>>
    /\ verification = NoVerification
    /\ resolver_input = <<>>
    /\ resolver_output = NoResult
    /\ OrchIdle
    /\ SettleIdle
    /\ RetrieverIdle

NextNumeric ==
    \/ VerifyEnter
    \/ VerifyResume
    \/ LlmTry
    \/ LlmTryResume
    \/ LlmExcept
    \/ LlmExceptResume

SpecNumeric == InitNumeric /\ [][NextNumeric]_vars /\ WF_vars(NextNumeric)

\* ------------------------------------------------------------------------
\* settle on its own
\* ------------------------------------------------------------------------
\* all but the variables of settle and config
settleRest == <<riskVars, resolverVars, orchVars, numericVars, retrieverVars>>

\* the assessment lists behind the verifications settle is called with
SettleAssessmentLists ==
    {<<>>,
     <<TimedAssessment("NumericVerifier", [id |-> 1], "LONG", 95,
                       <<[type |-> "CONFIRMED", relevance |-> 70]>>)>>,
     <<TimedAssessment("NumericVerifier", [id |-> 1], "SHORT", 94,
                       <<[type |-> "NOT_FOUND", relevance |-> 97]>>)>>,
     <<TimedAssessment("NumericVerifier", [id |-> 1], "LONG", 65,
                       <<[type |-> "FLAG", relevance |-> 84]>>),
       TimedAssessment("ConsistencyBot", [id |-> 1], "SHORT", 60,
                       <<[type |-> "FLAG", relevance |-> 85]>>)>>,
     <<TimedAssessment("RetrieverAgent", [id |-> 1], "SHORT", 80,
                       <<[type |-> "CONTRADICTION", relevance |-> 80],
                         [type |-> "PATTERN", relevance |-> 80]>>),
       TimedAssessment("ConsistencyBot", [id |-> 1], "SHORT", 77,
                       <<[type |-> "INCONSISTENCY", relevance |-> 90]>>)>>,
     <<TimedAssessment("RetrieverAgent", [id |-> 1], "LONG", 65,
                       <<[type |-> "SUPPORTS", relevance |-> 70]>>),
       TimedAssessment("ConsistencyBot", [id |-> 1], "LONG", 70,
                       <<[type |-> "CONSISTENT", relevance |-> 80]>>)>>}

\* the verifications of a session: aggregate_risk of one claim per list
SettleVerifications ==
    {aggregate_risk([id |-> 1, type |-> "NUMERIC", severity |-> "MED"], as) :
         as \in SettleAssessmentLists}

\* the calls of settle the pipeline makes: a non-empty list of
\* verifications and the overall action resolved from it
SettleArgs ==
    {[made |-> TRUE, verifications |-> vs,
      overall_action |-> determine_overall_action(vs)] :
         vs \in SeqsUpTo(SettleVerifications, MaxClaims) \ {<<>>}}

InitSettle ==
    /\ config \in {c \in Configs : c.LLM_PROVIDER = "anthropic"
                                   /\ ~c.ANTHROPIC_API_KEY /\ ~c.OPENAI_API_KEY}
    /\ st_args \in SettleArgs
    /\ st_response = NoCall
    /\ st_result = NoSettlement
    /\ claim = [id |-> 1, type |-> "NUMERIC", severity |-> "MED"]
    /\ assessments = <<>>
    /\ verification = NoVerification
    /\ resolver_input = <<>>
    /\ resolver_output = NoResult
    /\ OrchIdle
    /\ NumericIdle
    /\ RetrieverIdle

\* settle(session_id, verifications, overall_action)
CallSettle ==
    /\ st_result = NoSettlement
    /\ \E r \in SphinxOutcomes :
           /\ st_response' = IF ~config.DEMO_MODE /\ config.SPHINX_API_KEY
                             THEN r ELSE NoCall
           /\ st_result' = settle(config, st_args.verifications, st_args.overall_action, r)
    /\ UNCHANGED <<config, st_args>>
    /\ UNCHANGED settleRest

NextSettle == CallSettle

SpecSettle == InitSettle /\ [][NextSettle]_vars

\* ------------------------------------------------------------------------
\* agents/retriever_agent.py
\* A call is kept by the evidence rows it meets: per corpus entry its
\* similarity to the claim in hundredths, and for a verified claim whether
\* it agrees with the claim (the verdict column, _claims_agree).
\* ------------------------------------------------------------------------
\* all but the variables of RetrieverAgent.verify and config
retrieverRest == <<riskVars, resolverVars, orchVars, numericVars, settleVars>>

\* the findings over the verified claims, with thresholds and relevance of
\* the Actian path
RECURSIVE ActianVerifiedFindings(_)
ActianVerifiedFindings(rows) ==
    IF rows = <<>> THEN <<>>
    ELSE LET r == Head(rows)
         IN  (IF r.sim > 70
              THEN <<[type |-> IF r.agree THEN "SUPPORTS" ELSE "CONTRADICTION",
                      relevance |-> r.sim]>>
              ELSE <<>>)
             \o ActianVerifiedFindings(Tail(rows))

RECURSIVE ActianPatternFindings(_)
ActianPatternFindings(rows) ==
    IF rows = <<>> THEN <<>>
    ELSE LET r == Head(rows)
         IN  (IF r.sim > 75 THEN <<[type |-> "PATTERN", relevance |-> r.sim]>> ELSE <<>>)
             \o ActianPatternFindings(Tail(rows))

\* _verify_actian once the three queries have returned their rows
verify_actian(call) ==
    LET findings == ActianVerifiedFindings(call.verified)
                    \o ActianPatternFindings(call.hallucinations)
        supporting == CountFindingTypes(findings, {"SUPPORTS"})
        contradicting == CountFindingTypes(findings, {"CONTRADICTION", "PATTERN"})
    IN  IF contradicting > supporting
        THEN TimedAssessment("RetrieverAgent", call.claim, "SHORT",
                             Min(95, 60 + contradicting * 10), findings)
        ELSE TimedAssessment("RetrieverAgent", call.claim, "LONG",
                             Min(95, 60 + supporting * 8), findings)

RECURSIVE MockVerifiedFindings(_)
MockVerifiedFindings(rows) ==
    IF rows = <<>> THEN <<>>
    ELSE LET r == Head(rows)
         IN  (IF r.sim > 30
              THEN <<[type |-> IF r.agree THEN "SUPPORTS" ELSE "CONTRADICTION",
                      relevance |-> Min(99, r.sim + 20)]>>
              ELSE <<>>)
             \o MockVerifiedFindings(Tail(rows))

RECURSIVE MockPatternFindings(_)
MockPatternFindings(rows) ==
    IF rows = <<>> THEN <<>>
    ELSE LET r == Head(rows)
         IN  (IF r.sim > 35
              THEN <<[type |-> "PATTERN", relevance |-> Min(95, r.sim + 15)]>>
              ELSE <<>>)
             \o MockPatternFindings(Tail(rows))

\* the analyst findings take the side that leads when the loop starts
RECURSIVE MockAnalystFindings(_, _)
MockAnalystFindings(rows, side) ==
    IF rows = <<>> THEN <<>>
    ELSE LET r == Head(rows)
         IN  (IF r.sim > 25
              THEN <<[type |-> side, relevance |-> Min(92, r.sim + 15)]>>
              ELSE <<>>)
             \o MockAnalystFindings(Tail(rows), side)

\* _verify_mock
verify_mock(call) ==
    LET first == MockVerifiedFindings(call.verified)
                 \o MockPatternFindings(call.hallucinations)
        supporting == CountFindingTypes(first, {"SUPPORTS"})
        matched == CountFindingTypes(first, {"CONTRADICTION", "PATTERN"})
        found == first \o MockAnalystFindings(call.analysts,
                                              IF supporting > matched
                                              THEN "SUPPORTS" ELSE "CONTRADICTION")
        findings == IF found # <<>> THEN found
                    ELSE IF call.claim.type = "CASE_LAW"
                    THEN <<[type |-> "NOT_FOUND", relevance |-> 90]>>
                    ELSE <<[type |-> "FLAG", relevance |-> 50]>>
        contradicting == IF found = <<>> /\ call.claim.type = "CASE_LAW"
                         THEN matched + 1 ELSE matched
    IN  IF contradicting > supporting
        THEN TimedAssessment("RetrieverAgent", call.claim, "SHORT",
                             Min(95, 55 + contradicting * 12), findings)
        ELSE IF supporting > 0
        THEN TimedAssessment("RetrieverAgent", call.claim, "LONG",
                             Min(95, 55 + supporting * 10), findings)
        ELSE TimedAssessment("RetrieverAgent", call.claim, "SHORT", 55, findings)

\* what the attempt to use the Actian database may come to: no connection,
\* no sentence encoder, a failing query, or the rows
DbOutcomes == {"connect_failed", "no_encoder", "query_failed", "rows"}

\* the similarities drawn, on both sides of every threshold of either path
Similarities == {20, 50, 80}

RetrieverCalls ==
    [made : {TRUE},
     claim : [id : {1}, type : {"CASE_LAW", "NUMERIC"}],
     verified : SeqsUpTo([agree : BOOLEAN, sim : Similarities], MaxRows),
     hallucinations : SeqsUpTo([sim : Similarities], MaxRows),
     analysts : SeqsUpTo([sim : Similarities], MaxRows)]

InitRetriever ==
    /\ config \in {c \in Configs : c.LLM_PROVIDER = "anthropic" /\ ~c.ANTHROPIC_API_KEY
                                   /\ ~c.OPENAI_API_KEY /\ ~c.SPHINX_API_KEY}
    /\ rt_call \in RetrieverCalls
    /\ rt_result = NoCall
    /\ claim = [id |-> 1, type |-> "NUMERIC", severity |-> "MED"]
    /\ assessments = <<>>
    /\ verification = NoVerification
    /\ resolver_input = <<>>
    /\ resolver_output = NoResult
    /\ OrchIdle
    /\ NumericIdle
    /\ SettleIdle

\* RetrieverAgent.verify
RetrieverVerify ==
    /\ rt_result = NoCall
    /\ \E db \in DbOutcomes :
           rt_result' =
               IF ~config.DEMO_MODE /\ db = "rows"
               THEN [made |-> TRUE, backend |-> "actian", value |-> verify_actian(rt_call)]
               ELSE [made |-> TRUE, backend |-> "mock", value |-> verify_mock(rt_call)]
    /\ UNCHANGED <<config, rt_call>>
    /\ UNCHANGED retrieverRest

NextRetriever == RetrieverVerify

SpecRetriever == InitRetriever /\ [][NextRetriever]_vars

\* ------------------------------------------------------------------------
\* services/orchestrator.py: the fan-out of run_verification for one claim.
\* asyncio.gather starts the verifiers' coroutines in registry order on one
\* event loop: a coroutine runs until it waits for the network or returns,
\* and only then does the next one run. NumericVerifier waits at the request
\* to the LLM only; RetrieverAgent.verify holds no wait at all.
\* ConsistencyBot reads neither config nor anything a verifier writes, so
\* it is left out.
\* ------------------------------------------------------------------------
\* NumericVerifier.verify has returned or raised
NumericReturned == nv_call # NoCall /\ nv_stack = <<>>

\* NumericVerifier waits for the answer to client.post
NumericSuspended ==
    /\ nv_stack # <<>>
    /\ TopFrame.fn = "_verify_with_llm" /\ TopFrame.at = "try"
    /\ config.LLM_PROVIDER = "anthropic"

InitFanout ==
    /\ config \in {c \in Configs : ~c.SPHINX_API_KEY}
    /\ nv_call \in [made : {TRUE}, claim : NumericClaims, context : NumericContexts]
    /\ nv_stack = <<Frame("verify", "entry", FALSE)>>
    /\ nv_signal = NoSignal
    /\ nv_log = 0
    /\ rt_call \in {c \in RetrieverCalls : c.claim.type = nv_call.claim.type
                                           /\ c.analysts = <<>>}
    /\ rt_result = NoCall
    /\ claim = [id |-> 1, type |-> "NUMERIC", severity |-> "MED"]
    /\ assessments = <<>>
    /\ verification = NoVerification
    /\ resolver_input = <<>>
    /\ resolver_output = NoResult
    /\ OrchIdle
    /\ SettleIdle

\* the event loop runs NumericVerifier's coroutine: first of the fan-out, and
\* again on the answer to its request once the other coroutines have run
FanoutNumeric ==
    /\ NumericSuspended => rt_result # NoCall
    /\ NextNumeric

\* the event loop runs RetrieverAgent's coroutine, once the coroutine
\* started before it waits or is through
FanoutRetriever ==
    /\ NumericSuspended \/ NumericReturned
    /\ RetrieverVerify

NextFanout == FanoutNumeric \/ FanoutRetriever

SpecFanout == InitFanout /\ [][NextFanout]_vars /\ WF_vars(NextFanout)

\* ------------------------------------------------------------------------
\* agents/consistency_bot.py
\* A claim's text is kept by what the checks read of it: its capitalised
\* words (entities), the keywords it contains (words) and whether
\* _extract_numbers finds a number in it (numbers).
\* ------------------------------------------------------------------------
ExtendWords == {"extend", "built on", "following", "consistent with"}

GeneralizationPhrases ==
    {"consistently upheld", "universally recognized", "well-established across",
     "uniformly applied", "all circuits", "every jurisdiction"}

shared_entities(text_a, text_b) == (text_a.entities \cap text_b.entities) # {}

\* other_assessments.get(id, [])
DictGet(dict, id) == IF id \in DOMAIN dict THEN dict[id] ELSE <<>>

RECURSIVE check_dependencies(_, _, _)
check_dependencies(c, other_claims, other_assessments) ==
    IF other_claims = <<>> THEN <<>>
    ELSE LET oc == Head(other_claims)
             rest == check_dependencies(c, Tail(other_claims), other_assessments)
             short_count == CountSide(DictGet(other_assessments, oc.id), "SHORT")
         IN  IF oc.id # c.id /\ shared_entities(c.text, oc.text) /\ short_count >= 2
             THEN <<[type |-> "INCONSISTENCY", relevance |-> 90]>> \o rest
             ELSE rest

RECURSIVE check_arithmetic(_, _)
check_arithmetic(c, other_claims) ==
    IF c.type # "NUMERIC" \/ other_claims = <<>> THEN <<>>
    ELSE LET oc == Head(other_claims)
             rest == check_arithmetic(c, Tail(other_claims))
             paired == \/ "margin" \in c.text.words /\ "revenue" \in oc.text.words
                       \/ "revenue" \in c.text.words /\ "margin" \in oc.text.words
         IN  IF oc.id # c.id /\ oc.type = "NUMERIC" /\ paired
                /\ c.text.numbers /\ oc.text.numbers
             THEN <<[type |-> "FLAG", relevance |-> 85]>> \o rest
             ELSE rest

RECURSIVE check_legal_consistency(_, _)
check_legal_consistency(c, other_claims) ==
    IF other_claims = <<>> THEN <<>>
    ELSE LET oc == Head(other_claims)
             rest == check_legal_consistency(c, Tail(other_claims))
         IN  IF oc.type = "CASE_LAW" /\ oc.id # c.id
                /\ (c.text.words \cap ExtendWords) # {}
             THEN <<[type |-> "INCONSISTENCY", relevance |-> 92]>> \o rest
             ELSE rest

check_generalizations(c) ==
    IF (c.text.words \cap GeneralizationPhrases) # {}
    THEN <<[type |-> "FLAG", relevance |-> 78]>>
    ELSE <<>>

\* ConsistencyBot_verify of a scoring that looks at the flags before the
\* inconsistencies
ConsistencyBot_verify_FlagsFirst(c, context) ==
    LET findings ==
            check_dependencies(c, context.other_claims, context.other_assessments)
            \o check_arithmetic(c, context.other_claims)
            \o (IF c.type = "CASE_LAW"
                THEN check_legal_consistency(c, context.other_claims) ELSE <<>>)
            \o (IF c.type = "LEGAL" THEN check_generalizations(c) ELSE <<>>)
        inconsistencies == CountFindingTypes(findings, {"INCONSISTENCY", "CONTRADICTION"})
        flags == CountFindingTypes(findings, {"FLAG"})
    IN  IF flags > 0
        THEN TimedAssessment("ConsistencyBot", c, "SHORT",
                             Min(80, 50 + flags * 10), findings)
        ELSE IF inconsistencies > 0
        THEN TimedAssessment("ConsistencyBot", c, "SHORT",
                             Min(95, 65 + inconsistencies * 12), findings)
        ELSE TimedAssessment("ConsistencyBot", c, "LONG", 70,
                             Append(findings, [type |-> "CONSISTENT", relevance |-> 80]))

\* ConsistencyBot.verify
ConsistencyBot_verify(c, context) ==
    LET findings ==
            check_dependencies(c, context.other_claims, context.other_assessments)
            \o check_arithmetic(c, context.other_claims)
            \o (IF c.type = "CASE_LAW"
                THEN check_legal_consistency(c, context.other_claims) ELSE <<>>)
            \o (IF c.type = "LEGAL" THEN check_generalizations(c) ELSE <<>>)
        inconsistencies == CountFindingTypes(findings, {"INCONSISTENCY", "CONTRADICTION"})
        flags == CountFindingTypes(findings, {"FLAG"})
    IN  IF inconsistencies > 0
        THEN TimedAssessment("ConsistencyBot", c, "SHORT",
                             Min(95, 65 + inconsistencies * 12), findings)
        ELSE IF flags > 0
        THEN TimedAssessment("ConsistencyBot", c, "SHORT",
                             Min(80, 50 + flags * 10), findings)
        ELSE TimedAssessment("ConsistencyBot", c, "LONG", 70,
                             Append(findings, [type |-> "CONSISTENT", relevance |-> 80]))

\* what extract_claims may return: ids CLM-001, CLM-002, ... in order, kinds and
\* severities as assigned by extract_claims_rules to sentences of these shapes
ExtractedShapes ==
    {[type |-> "CASE_LAW", severity |-> "CRITICAL",
      text |-> [entities |-> {"Harrison"}, words |-> {"following"}, numbers |-> FALSE]],
     [type |-> "NUMERIC", severity |-> "MED",
      text |-> [entities |-> {"Acme"}, words |-> {"revenue"}, numbers |-> TRUE]],
     [type |-> "NUMERIC", severity |-> "HIGH",
      text |-> [entities |-> {"Acme"}, words |-> {"margin"}, numbers |-> TRUE]]}

ExtractedClaims ==
    UNION {{[i \in 1..n |-> [id |-> i, type |-> shapes[i].type,
                             severity |-> shapes[i].severity, text |-> shapes[i].text]] :
                shapes \in [1..n -> ExtractedShapes]} : n \in 0..MaxClaims}

\* the context dict built for claim c: other_assessments is all_assessments
\* itself, not a copy
Context(c) == [other_claims |-> OtherClaims(c), other_assessments |-> all_assessments]

\* what agent.verify may return for claim c
VerifierAssessments(agent, c) ==
    IF agent = "ConsistencyBot" THEN {ConsistencyBot_verify(c, Context(c))}
    ELSE {TimedAssessment(agent, c, "LONG", 90, <<[type |-> "SUPPORTS", relevance |-> 80]>>),
          TimedAssessment(agent, c, "SHORT", 90, <<[type |-> "CONTRADICTION", relevance |-> 80]>>)}

InitOrch ==
    /\ mode \in {"batch", "streaming"}
    /\ pc = "created"
    /\ claims = <<>>
    /\ claim_idx = 0
    /\ tasks = NoTasks
    /\ all_assessments = <<>>
    /\ all_verifications = <<>>
    /\ session = NewSession
    /\ events = <<>>
    /\ calls = NoCalls
    /\ claim = [id |-> 1, type |-> "NUMERIC", severity |-> "MED"]
    /\ assessments = <<>>
    /\ verification = NoVerification
    /\ resolver_input = <<>>
    /\ resolver_output = NoResult
    /\ ExtIdle

\* session = VerificationSession(...); streaming yields session_created
CreateSession ==
    /\ pc = "created"
    /\ pc' = "extract"
    /\ events' = Emit(SessionCreatedEvent)
    /\ UNCHANGED <<mode, claims, claim_idx, tasks, all_assessments,
                   all_verifications, session, calls>>
    /\ UNCHANGED <<riskVars, resolverVars, extVars>>

\* ExtractClaims whose early return reports BLOCK, the resolver's answer for
\* an empty list
ExtractClaims_EarlyBlock ==
    /\ pc = "extract"
    /\ \E cs \in ExtractedClaims :
           /\ claims' = cs
           /\ IF cs = <<>>
              THEN /\ pc' = "done"
                   /\ claim_idx' = 0
                   /\ session' = IF mode = "batch"
                                 THEN [session EXCEPT !.claims = cs, !.overall_action = "BLOCK"]
                                 ELSE [session EXCEPT !.claims = cs]
                   /\ events' = IF mode = "streaming"
                                THEN events \o <<ClaimsExtractedEvent(cs), ActionEvent("BLOCK")>>
                                ELSE events
              ELSE /\ pc' = "verifying"
                   /\ claim_idx' = 1
                   /\ session' = [session EXCEPT !.claims = cs]
                   /\ events' = Emit(ClaimsExtractedEvent(cs))
    /\ UNCHANGED <<mode, tasks, all_assessments, all_verifications, calls>>
    /\ UNCHANGED <<riskVars, resolverVars, extVars>>

\* ExtractClaims without the early return: an empty list of claims falls
\* through the loop to determine_overall_action
ExtractClaims_NoEarlyReturn ==
    /\ pc = "extract"
    /\ \E cs \in ExtractedClaims :
           /\ claims' = cs
           /\ pc' = IF cs = <<>> THEN "resolving" ELSE "verifying"
           /\ claim_idx' = IF cs = <<>> THEN 0 ELSE 1
           /\ session' = [session EXCEPT !.claims = cs]
           /\ events' = Emit(ClaimsExtractedEvent(cs))
    /\ UNCHANGED <<mode, tasks, all_assessments, all_verifications, calls>>
    /\ UNCHANGED <<riskVars, resolverVars, extVars>>

\* claims = await extract_claims(...); the early return on no claims
ExtractClaims ==
    /\ pc = "extract"
    /\ \E cs \in ExtractedClaims :
           /\ claims' = cs
           /\ IF cs = <<>>
              THEN /\ pc' = "done"
                   /\ claim_idx' = 0
                   /\ session' = IF mode = "batch"
                                 THEN [session EXCEPT !.claims = cs, !.overall_action = "ALLOW"]
                                 ELSE [session EXCEPT !.claims = cs]
                   /\ events' = IF mode = "streaming"
                                THEN events \o <<ClaimsExtractedEvent(cs), ActionEvent("ALLOW")>>
                                ELSE events
              ELSE /\ pc' = "verifying"
                   /\ claim_idx' = 1
                   /\ session' = [session EXCEPT !.claims = cs]
                   /\ events' = Emit(ClaimsExtractedEvent(cs))
    /\ UNCHANGED <<mode, tasks, all_assessments, all_verifications, calls>>
    /\ UNCHANGED <<riskVars, resolverVars, extVars>>

\* agent.verify(claim, context) is entered: batch starts the gathered
\* coroutines in registry order, streaming awaits one agent at a time
StartVerify ==
    /\ pc = "verifying"
    /\ \E i \in AgentIdx :
           /\ tasks[i] = Pending
           /\ \A j \in 1..(i - 1) :
                  IF mode = "batch" THEN tasks[j] # Pending
                  ELSE tasks[j].status = "returned"
           /\ tasks' = [tasks EXCEPT ![i] = Running]
    /\ calls' = [calls EXCEPT !.verify = @ + 1]
    /\ UNCHANGED <<mode, pc, claims, claim_idx, all_assessments,
                   all_verifications, session, events>>
    /\ UNCHANGED <<riskVars, resolverVars, extVars>>

\* agent.verify returns an assessment; streaming yields agent_quote and
\* appends the assessment to all_assessments[claim.id]
ReturnVerify ==
    /\ pc = "verifying"
    /\ \E i \in AgentIdx :
           /\ tasks[i] = Running
           /\ \E a \in VerifierAssessments(ALL_AGENTS[i], CurrentClaim) :
                  /\ tasks' = [tasks EXCEPT ![i] = ReturnedWith(a)]
                  /\ events' = Emit(AgentQuoteEvent(a))
                  /\ all_assessments' =
                         IF mode = "streaming"
                         THEN DictPut(all_assessments, CurrentClaim.id,
                                      IF CurrentClaim.id \in DOMAIN all_assessments
                                      THEN Append(all_assessments[CurrentClaim.id], a)
                                      ELSE <<a>>)
                         ELSE all_assessments
    /\ UNCHANGED <<mode, pc, claims, claim_idx, all_verifications, session, calls>>
    /\ UNCHANGED <<riskVars, resolverVars, extVars>>

\* agent.verify raises: gather(return_exceptions=True) keeps the exception as
\* a result in batch mode; in streaming mode it leaves the generator
RaiseVerify ==
    /\ pc = "verifying"
    /\ \E i \in AgentIdx :
           /\ tasks[i] = Running
           /\ tasks' = [tasks EXCEPT ![i] = Raised]
    /\ pc' = IF mode = "batch" THEN pc ELSE "raised"
    /\ UNCHANGED <<mode, claims, claim_idx, all_assessments,
                   all_verifications, session, events, calls>>
    /\ UNCHANGED <<riskVars, resolverVars, extVars>>

\* the assessments of the finished tasks, in registry order
RECURSIVE ValidFrom(_, _)
ValidFrom(ts, i) ==
    IF i > Len(ALL_AGENTS) THEN <<>>
    ELSE IF ts[i].status = "returned" THEN <<ts[i].value>> \o ValidFrom(ts, i + 1)
    ELSE ValidFrom(ts, i + 1)

ValidAssessments(ts) == ValidFrom(ts, 1)

\* every assessment collected so far, over all claims in order of their ids
RECURSIVE AllCollected(_, _)
AllCollected(dict, n) ==
    IF n = 0 THEN <<>>
    ELSE AllCollected(dict, n - 1) \o (IF n \in DOMAIN dict THEN dict[n] ELSE <<>>)

\* ScoreClaim of a streaming loop that keeps one list of assessments for the
\* whole session and scores each claim from all of it
ScoreClaim_StreamingFlat ==
    /\ pc = "verifying"
    /\ \A i \in AgentIdx : tasks[i].status \in {"returned", "raised"}
    /\ LET scored == IF mode = "batch" THEN ValidAssessments(tasks)
                     ELSE AllCollected(all_assessments, Len(claims))
           v == aggregate_risk(CurrentClaim, scored)
       IN  /\ all_assessments' = IF mode = "batch"
                                 THEN DictPut(all_assessments, CurrentClaim.id, scored)
                                 ELSE all_assessments
           /\ all_verifications' = Append(all_verifications, v)
           /\ events' = Emit(RiskUpdateEvent(v))
    /\ calls' = [calls EXCEPT !.aggregate_risk = @ + 1]
    /\ tasks' = NoTasks
    /\ IF claim_idx < Len(claims)
       THEN claim_idx' = claim_idx + 1 /\ pc' = "verifying"
       ELSE claim_idx' = claim_idx /\ pc' = "resolving"
    /\ UNCHANGED <<mode, claims, session>>
    /\ UNCHANGED <<riskVars, resolverVars, extVars>>

\* ScoreClaim that goes on as soon as one verifier is through, as a wait for
\* the first completed task would
ScoreClaim_FirstCompleted ==
    /\ pc = "verifying"
    /\ \E i \in AgentIdx : tasks[i].status \in {"returned", "raised"}
    /\ LET scored == IF mode = "batch" THEN ValidAssessments(tasks)
                     ELSE IF CurrentClaim.id \in DOMAIN all_assessments
                          THEN all_assessments[CurrentClaim.id] ELSE <<>>
           v == aggregate_risk(CurrentClaim, scored)
       IN  /\ all_assessments' = IF mode = "batch"
                                 THEN DictPut(all_assessments, CurrentClaim.id, scored)
                                 ELSE all_assessments
           /\ all_verifications' = Append(all_verifications, v)
           /\ events' = Emit(RiskUpdateEvent(v))
    /\ calls' = [calls EXCEPT !.aggregate_risk = @ + 1]
    /\ tasks' = NoTasks
    /\ IF claim_idx < Len(claims)
       THEN claim_idx' = claim_idx + 1 /\ pc' = "verifying"
       ELSE claim_idx' = claim_idx /\ pc' = "resolving"
    /\ UNCHANGED <<mode, claims, session>>
    /\ UNCHANGED <<riskVars, resolverVars, extVars>>

\* all verifiers of the claim are through: aggregate_risk, the append to
\* all_verifications, and the next iteration or the end of the loop
ScoreClaim ==
    /\ pc = "verifying"
    /\ \A i \in AgentIdx : tasks[i].status \in {"returned", "raised"}
    /\ LET scored == IF mode = "batch" THEN ValidAssessments(tasks)
                     ELSE all_assessments[CurrentClaim.id]
           v == aggregate_risk(CurrentClaim, scored)
       IN  /\ all_assessments' = IF mode = "batch"
                                 THEN DictPut(all_assessments, CurrentClaim.id, scored)
                                 ELSE all_assessments
           /\ all_verifications' = Append(all_verifications, v)
           /\ events' = Emit(RiskUpdateEvent(v))
    /\ calls' = [calls EXCEPT !.aggregate_risk = @ + 1]
    /\ tasks' = NoTasks
    /\ IF claim_idx < Len(claims)
       THEN claim_idx' = claim_idx + 1 /\ pc' = "verifying"
       ELSE claim_idx' = claim_idx /\ pc' = "resolving"
    /\ UNCHANGED <<mode, claims, session>>
    /\ UNCHANGED <<riskVars, resolverVars, extVars>>

\* session.verifications = all_verifications; determine_overall_action
ResolveOverall ==
    /\ pc = "resolving"
    /\ session' = [session EXCEPT
                       !.verifications = all_verifications,
                       !.overall_action = determine_overall_action(all_verifications)]
    /\ calls' = [calls EXCEPT !.determine_overall_action = @ + 1]
    /\ pc' = "settling"
    /\ UNCHANGED <<mode, claims, claim_idx, tasks, all_assessments,
                   all_verifications, events>>
    /\ UNCHANGED <<riskVars, resolverVars, extVars>>

\* settlement = await settle(...); streaming yields the settlement event
Settle ==
    /\ pc = "settling"
    /\ \E r \in SphinxOutcomes :
           LET st == settle(config, all_verifications, session.overall_action, r)
           IN  /\ session' = [session EXCEPT !.settlement = st]
               /\ events' = Emit(SettlementEvent(st, session.overall_action))
    /\ calls' = [calls EXCEPT !.settle = @ + 1]
    /\ pc' = "done"
    /\ UNCHANGED <<mode, claims, claim_idx, tasks, all_assessments, all_verifications>>
    /\ UNCHANGED <<riskVars, resolverVars, extVars>>

NextOrch ==
    \/ CreateSession
    \/ ExtractClaims
    \/ StartVerify
    \/ ReturnVerify
    \/ RaiseVerify
    \/ ScoreClaim
    \/ ResolveOverall
    \/ Settle

SpecOrch == InitOrch /\ [][NextOrch]_vars

\* ------------------------------------------------------------------------
\* Inputs of aggregate_risk
\* ------------------------------------------------------------------------
Claims == [id : {1}, type : ClaimType, severity : Severity]

AgentNames == {"NumericVerifier", "UnlistedAgent"}
Confidences == {50, 100}
Relevances == {80}

Findings == [type : {"SUPPORTS"}, relevance : Relevances]

AgentAssessments ==
    [agent_name : AgentNames, claim_id : {1}, position : AgentSide,
     confidence : Confidences, findings : SeqsUpTo(Findings, MaxFindings)]

\* ------------------------------------------------------------------------
\* Specification of aggregate_risk applied to drawn inputs
\* ------------------------------------------------------------------------
ResolverIdle == resolver_input = <<>> /\ resolver_output = NoResult

InitRisk ==
    /\ claim \in Claims
    /\ assessments = <<>>
    /\ verification = NoVerification
    /\ ResolverIdle
    /\ OrchIdle
    /\ ExtIdle

\* one more assessment is collected for the claim
CollectAssessment ==
    /\ verification = NoVerification
    /\ Len(assessments) < MaxAssess
    /\ \E a \in AgentAssessments : assessments' = Append(assessments, a)
    /\ UNCHANGED <<claim, verification, resolver_input, resolver_output>>
    /\ UNCHANGED <<orchVars, extVars>>

\* verification = aggregate_risk(claim, assessments)
AggregateRisk ==
    /\ verification = NoVerification
    /\ verification' = aggregate_risk(claim, assessments)
    /\ UNCHANGED <<claim, assessments, resolver_input, resolver_output>>
    /\ UNCHANGED <<orchVars, extVars>>

NextRisk == CollectAssessment \/ AggregateRisk

SpecRisk == InitRisk /\ [][NextRisk]_vars

\* ------------------------------------------------------------------------
\* Specification of aggregate_risk as the interpreter computes it, applied
\* to the assessments of the registered agents
\* ------------------------------------------------------------------------
Binary64Confidences == {95}

\* what the agent at position i of the registry may return for the claim
RegisteredAssessments(i) ==
    [agent_name : {ALL_AGENTS[i]}, claim_id : {1}, position : AgentSide,
     confidence : Binary64Confidences, findings : SeqsUpTo(Findings, 1)]

InitBinary64 ==
    /\ claim \in {c \in Claims : c.type = "NUMERIC"}
    /\ assessments = <<>>
    /\ verification = NoVerification
    /\ ResolverIdle
    /\ OrchIdle
    /\ ExtIdle

\* the next agent of the registry returns its assessment
CollectRegistered ==
    /\ verification = NoVerification
    /\ Len(assessments) < Len(ALL_AGENTS)
    /\ \E a \in RegisteredAssessments(Len(assessments) + 1) :
           assessments' = Append(assessments, a)
    /\ UNCHANGED <<claim, verification, resolver_input, resolver_output>>
    /\ UNCHANGED <<orchVars, extVars>>

\* verification = aggregate_risk(claim, assessments), computed in binary64
AggregateRiskBinary64 ==
    /\ verification = NoVerification
    /\ verification' = aggregate_risk_binary64(claim, assessments)
    /\ UNCHANGED <<claim, assessments, resolver_input, resolver_output>>
    /\ UNCHANGED <<orchVars, extVars>>

NextBinary64 == CollectRegistered \/ AggregateRiskBinary64

SpecBinary64 == InitBinary64 /\ [][NextBinary64]_vars

TypeOKRisk ==
    verification # NoVerification =>
        /\ verification.risk_score \in 0..10000
        /\ verification.action \in RiskAction

\* ------------------------------------------------------------------------
\* Properties of aggregate_risk
\* ------------------------------------------------------------------------
Returned == verification # NoVerification

\* leniency order of actions: allow > rewrite > block
Leniency(a) == CASE a = "ALLOW" -> 2 [] a = "REWRITE" -> 1 [] OTHER -> 0

\* severity order: low < medium < high < critical
SeverityRank(s) ==
    CASE s = "LOW" -> 0 [] s = "MED" -> 1 [] s = "HIGH" -> 2 [] OTHER -> 3

\* distance of a returned risk_score from 0.5, in units of 1e-4
DistFromHalf(r) == Abs(r - 5000)

\* the fraction x differs from 1/2 by at least 0.01
FarFromHalf(x) == Abs(2 * x[1] - x[2]) * 50 >= x[2]

\* r/10000 < x and x < r/10000 for a returned score r and a fraction x
ScoreBelow(r, x) == FracLess(r, 10000, x[1], x[2])
ScoreAbove(r, x) == FracLess(x[1], x[2], r, 10000)

Unanimous(as) == CountSide(as, "LONG") = 0 \/ CountSide(as, "SHORT") = 0
Split(as) == ~Unanimous(as)

ConfidenceSum(as) == SumSeq([i \in 1..Len(as) |-> as[i].confidence])

ShortOnly(as) == SelectSeq(as, LAMBDA a : a.position = "SHORT")

AssessmentPairs == {s \in SeqsUpTo(AgentAssessments, 2) : Len(s) = 2}

\* C1: aggregate_risk called with an empty assessment list returns
\* verdict=uncertain, action=block and risk_score=0.50, whatever the kind and
\* the severity of the claim.
C1_NoAssessments ==
    (Returned /\ assessments = <<>>) =>
        /\ verification.verdict = "UNCERTAIN"
        /\ verification.action = "BLOCK"
        /\ verification.risk_score = 5000

C1_Witness ==
    /\ Returned
    /\ assessments = <<>>
    /\ claim.type = "CASE_LAW"
    /\ claim.severity = "LOW"

\* C2 (as claimed): any two results of aggregate_risk, the no-assessments
\* result included, with the same risk_score and the same severity have the
\* same action.
C2_ActionFromScoreAndSeverity ==
    (Returned /\ Len(assessments) <= 2) =>
        \A other \in SeqsUpTo(AgentAssessments, 2) :
            LET v == aggregate_risk(claim, other)
            IN  v.risk_score = verification.risk_score
                    => v.action = verification.action

\* the non-empty lists of at most two assessments with the unrounded score x
SameRawScore(x) ==
    {other \in SeqsUpTo(AgentAssessments, 2) \ {<<>>} : RawRiskScore(other) = x}

\* C2 (amended): any two results of aggregate_risk for non-empty assessment
\* lists with the same severity and the same risk score before rounding have
\* the same action.
C2_ActionFromRawScoreAndSeverity ==
    (Returned /\ Len(assessments) \in 1..2) =>
        \A other \in SameRawScore(RawRiskScore(assessments)) :
            aggregate_risk(claim, other).action = verification.action

\* two different non-empty lists with the same unrounded score were both decided
C2_Witness ==
    /\ Returned
    /\ Len(assessments) = 2
    /\ verification.action = "ALLOW"
    /\ \E other \in SameRawScore(RawRiskScore(assessments)) :
           /\ Len(other) = 1
           /\ other[1].agent_name # assessments[1].agent_name

\* C3: for every list of assessments with confidences and relevances in
\* [0,1], every agent name and every severity, aggregate_risk returns a
\* risk_score in [0,1] and an action among allow, rewrite, block.
C3_ScoreAndActionInRange ==
    Returned =>
        /\ verification.risk_score \in 0..10000
        /\ verification.action \in RiskAction

C3_Witness ==
    /\ Returned
    /\ Len(assessments) = MaxAssess
    /\ Split(assessments)
    /\ \E i \in 1..Len(assessments) : assessments[i].agent_name = "UnlistedAgent"
    /\ \E i \in 1..Len(assessments) : assessments[i].findings # <<>>
    /\ verification.risk_score \in 1..9999

\* C4: with the assessments and the thresholds fixed, raising the severity of
\* the claim along low -> medium -> high -> critical never makes the action
\* of aggregate_risk more lenient.
C4_SeverityMonotone ==
    Returned =>
        \A s \in Severity :
            SeverityRank(s) >= SeverityRank(claim.severity) =>
                Leniency(aggregate_risk([claim EXCEPT !.severity = s], assessments).action)
                    <= Leniency(verification.action)

\* a claim allowed at low severity that is blocked at critical severity
C4_Witness ==
    /\ Returned
    /\ claim.severity = "LOW"
    /\ verification.action = "ALLOW"
    /\ aggregate_risk([claim EXCEPT !.severity = "HIGH"], assessments).action = "REWRITE"
    /\ aggregate_risk([claim EXCEPT !.severity = "CRITICAL"], assessments).action # "ALLOW"

\* C5 (as claimed): of two scenarios with two verifiers each and the same
\* mean confidence, one unanimous and one split, the split one has its
\* risk_score strictly closer to 0.5.
C5_SplitCloserSameMeanConfidence ==
    (Returned /\ Len(assessments) = 2 /\ Split(assessments)) =>
        \A u \in AssessmentPairs :
            (Unanimous(u) /\ ConfidenceSum(u) = ConfidenceSum(assessments)) =>
                DistFromHalf(verification.risk_score)
                    < DistFromHalf(aggregate_risk(claim, u).risk_score)

\* C5 (amended): of two scenarios with two verifiers each and the same
\* weighted mean truth-probability before the disagreement correction, that
\* mean differing from 0.5 by at least 0.01, one unanimous and one split, the
\* split one has its risk_score strictly closer to 0.5.
C5_SplitCloserSameWeightedMean ==
    (Returned /\ Len(assessments) = 2 /\ Split(assessments)) =>
        \A u \in AssessmentPairs :
            (/\ Unanimous(u)
             /\ WeightedMean(u) = WeightedMean(assessments)
             /\ FarFromHalf(WeightedMean(u))) =>
                DistFromHalf(verification.risk_score)
                    < DistFromHalf(aggregate_risk(claim, u).risk_score)

C5_Witness ==
    /\ Returned
    /\ Len(assessments) = 2
    /\ Split(assessments)
    /\ FarFromHalf(WeightedMean(assessments))
    /\ assessments[1].agent_name # assessments[2].agent_name
    /\ \E u \in AssessmentPairs :
           Unanimous(u) /\ WeightedMean(u) = WeightedMean(assessments)

TwoFalseOneTrue(as) ==
    Len(as) = 3 /\ CountSide(as, "SHORT") = 2 /\ CountSide(as, "LONG") = 1

\* C6 (as claimed): with two believes-false and one believes-true assessment
\* the risk_score lies strictly between the score of the two believes-false
\* assessments alone and the weighted mean of the three truth-probabilities
\* before the disagreement correction.
C6_BetweenFalseOnlyAndMean ==
    (Returned /\ TwoFalseOneTrue(assessments)) =>
        LET r == verification.risk_score
            f == aggregate_risk(claim, ShortOnly(assessments)).risk_score
            m == WeightedMean(assessments)
        IN  \/ f < r /\ ScoreBelow(r, m)
            \/ ScoreAbove(r, m) /\ r < f

\* C6 (amended): with two believes-false and one believes-true assessment
\* whose weighted mean truth-probability before the disagreement correction
\* differs from 0.5 by at least 0.01, the risk_score lies strictly between
\* that weighted mean and 0.5.
C6_BetweenMeanAndHalf ==
    (Returned /\ TwoFalseOneTrue(assessments) /\ FarFromHalf(WeightedMean(assessments))) =>
        LET r == verification.risk_score
            m == WeightedMean(assessments)
        IN  \/ ScoreAbove(r, m) /\ r < 5000
            \/ 5000 < r /\ ScoreBelow(r, m)

C6_Witness ==
    /\ Returned
    /\ TwoFalseOneTrue(assessments)
    /\ FarFromHalf(WeightedMean(assessments))
    /\ verification.risk_score > 5000

\* ------------------------------------------------------------------------
\* Specification of determine_overall_action applied to drawn inputs
\* ------------------------------------------------------------------------
\* the fields of a ClaimVerification that determine_overall_action reads
ResolverVerifications ==
    [claim : [id : {1}, type : {"NUMERIC"}, severity : Severity], action : RiskAction]

\* severity order of actions: allow < rewrite < block
ActionSeverity(a) == CASE a = "ALLOW" -> 0 [] a = "REWRITE" -> 1 [] OTHER -> 2

RiskIdle ==
    /\ claim = [id |-> 1, type |-> "NUMERIC", severity |-> "MED"]
    /\ assessments = <<>>
    /\ verification = NoVerification

InitResolver ==
    /\ resolver_input = <<>>
    /\ resolver_output = NoResult
    /\ RiskIdle
    /\ OrchIdle
    /\ ExtIdle

\* one more verification is appended to the list
AppendVerification ==
    /\ Len(resolver_input) < MaxVerifications
    /\ \E v \in ResolverVerifications : resolver_input' = Append(resolver_input, v)
    /\ resolver_output' = NoResult
    /\ UNCHANGED riskVars
    /\ UNCHANGED <<orchVars, extVars>>

\* the action of one verification becomes more severe, its claim unchanged
EscalateVerification ==
    /\ \E i \in 1..Len(resolver_input), a \in RiskAction :
           /\ ActionSeverity(a) > ActionSeverity(resolver_input[i].action)
           /\ resolver_input' = [resolver_input EXCEPT ![i].action = a]
    /\ resolver_output' = NoResult
    /\ UNCHANGED riskVars
    /\ UNCHANGED <<orchVars, extVars>>

\* resolver_output = determine_overall_action(resolver_input)
DetermineOverallAction ==
    /\ resolver_output = NoResult
    /\ resolver_output' = determine_overall_action(resolver_input)
    /\ UNCHANGED <<resolver_input, claim, assessments, verification>>
    /\ UNCHANGED <<orchVars, extVars>>

NextResolver == AppendVerification \/ EscalateVerification \/ DetermineOverallAction

SpecResolver == InitResolver /\ [][NextResolver]_vars

Resolved == resolver_output # NoResult

HighBlocked(vs) ==
    \E i \in 1..Len(vs) :
        vs[i].action = "BLOCK" /\ vs[i].claim.severity \in {"CRITICAL", "HIGH"}

HasAction(vs, a) == \E i \in 1..Len(vs) : vs[i].action = a

\* C7: if any verification has action block and a claim of severity critical
\* or high, determine_overall_action returns block, whatever the other
\* verifications are.
C7_HighBlockBlocksResponse ==
    (Resolved /\ HighBlocked(resolver_input)) => resolver_output = "BLOCK"

C7_Witness ==
    /\ Resolved
    /\ Len(resolver_input) = 3
    /\ resolver_input[1].action = "ALLOW"
    /\ resolver_input[2].action = "REWRITE"
    /\ resolver_input[3].action = "BLOCK"
    /\ resolver_input[3].claim.severity = "HIGH"

\* C8: for a non-empty list in which no critical- or high-severity claim is
\* blocked, determine_overall_action returns rewrite if some verification has
\* action rewrite or some (medium- or low-severity) verification has action
\* block, and returns allow exactly when every verification has action allow.
C8_RewriteOrAllow ==
    (Resolved /\ resolver_input # <<>> /\ ~HighBlocked(resolver_input)) =>
        /\ (HasAction(resolver_input, "REWRITE") \/ HasAction(resolver_input, "BLOCK"))
               => resolver_output = "REWRITE"
        /\ resolver_output = "ALLOW"
               <=> \A i \in 1..Len(resolver_input) : resolver_input[i].action = "ALLOW"

\* a blocked low-severity claim among allowed ones downgrades to rewrite
C8_Witness ==
    /\ Resolved
    /\ Len(resolver_input) >= 2
    /\ ~HighBlocked(resolver_input)
    /\ HasAction(resolver_input, "BLOCK")
    /\ ~HasAction(resolver_input, "REWRITE")
    /\ HasAction(resolver_input, "ALLOW")
    /\ resolver_output = "REWRITE"

Resolve(vs) == ActionSeverity(determine_overall_action(vs))

\* C9 (as claimed): for any verification list, the empty one included,
\* appending one more verification or changing one verification's action to
\* a more severe one never makes the resolved overall action less severe.
C9_OnlyEscalates ==
    [][resolver_input' # resolver_input
           => Resolve(resolver_input') >= Resolve(resolver_input)]_vars

\* C9 (amended): for any non-empty verification list, appending one more
\* verification or changing one verification's action to a more severe one
\* never makes the resolved overall action less severe.
C9_OnlyEscalatesNonEmpty ==
    [][(resolver_input # <<>> /\ resolver_input' # resolver_input)
           => Resolve(resolver_input') >= Resolve(resolver_input)]_vars

\* a list that was extended and escalated up to a blocked high-severity claim
C9_Witness ==
    /\ Resolved
    /\ Len(resolver_input) = MaxVerifications
    /\ resolver_input[1].action = "BLOCK"
    /\ resolver_input[1].claim.severity = "CRITICAL"
    /\ HasAction(resolver_input, "REWRITE")
    /\ resolver_output = "BLOCK"

\* ------------------------------------------------------------------------
\* Properties of the orchestrator
\* ------------------------------------------------------------------------
Finished == pc = "done"

\* C10: when claim extraction yields an empty sequence, both modes end with
\* action allow without calling any verifier, aggregate_risk,
\* determine_overall_action or settle: the batch session has
\* overall_action=allow, no verifications and no settlement, and the stream
\* ends with a single allow action event after claims-extracted.
C10_EmptyClaimsAllow ==
    (pc \notin {"created", "extract"} /\ claims = <<>>) =>
        /\ Finished
        /\ calls = NoCalls
        /\ mode = "batch" =>
               /\ session.overall_action = "ALLOW"
               /\ session.verifications = <<>>
               /\ session.settlement = NoSettlement
        /\ mode = "streaming" =>
               events = <<SessionCreatedEvent, ClaimsExtractedEvent(<<>>), ActionEvent("ALLOW")>>

C10_Witness ==
    /\ Finished
    /\ claims = <<>>
    /\ mode = "streaming"
    /\ Len(events) = 3

\* the overall action a run reports to its caller: the session's field in
\* batch mode, the action carried by the last event in streaming mode
ReportedAction ==
    IF mode = "batch" THEN session.overall_action
    ELSE IF events = <<>> THEN "none"
    ELSE LET e == events[Len(events)]
         IN  IF e.type = "action" THEN e.action
             ELSE IF e.type = "settlement" THEN e.overall_action
             ELSE "none"

\* C11 (as stated): every run of run_verification or
\* run_verification_streaming that finishes with zero verifications reports
\* the overall action block.
C11_ZeroVerificationsBlock ==
    (Finished /\ all_verifications = <<>>) => ReportedAction = "BLOCK"

\* C11 (amended): the pipeline never hands an empty verification list to
\* determine_overall_action; a run that finishes with zero verifications is a
\* run whose extraction found no claims, and it reports allow.
C11_ZeroVerificationsAllow ==
    /\ (Finished /\ all_verifications = <<>>) =>
           (claims = <<>> /\ ReportedAction = "ALLOW")
    /\ calls.determine_overall_action > 0 => all_verifications # <<>>

C11_Witness ==
    /\ Finished
    /\ mode = "batch"
    /\ all_verifications = <<>>
    /\ session.verifications = <<>>
    /\ session.overall_action = "ALLOW"

\* the run has ended: it returned (or its stream was exhausted), or an
\* exception left it
Ended == pc \in {"done", "raised"}

NumAgents == Len(ALL_AGENTS)

\* position in the stream of the first event of the i-th claim
ClaimOffset(i) == 2 + (i - 1) * (NumAgents + 1)

\* the events of the i-th claim: one agent_quote per verifier in registry
\* order, then the claim's risk_update
ClaimEventsInOrder(i) ==
    /\ \A k \in 1..NumAgents :
           LET e == events[ClaimOffset(i) + k]
           IN  /\ e.type = "agent_quote"
               /\ e.claim_id = claims[i].id
               /\ e.agent_name = ALL_AGENTS[k]
    /\ LET r == events[ClaimOffset(i) + NumAgents + 1]
       IN  /\ r.type = "risk_update"
           /\ r.claim_id = claims[i].id

\* C12: for n >= 1 extracted claims and k registered verifiers,
\* run_verification_streaming emits exactly session-created,
\* claims-extracted, then per claim in extracted order k agent-quote events
\* in registry order followed by one risk-update, and finally exactly one
\* settlement event as the last event; no other events appear.
C12_StreamSequence ==
    (mode = "streaming" /\ Ended /\ claims # <<>>) =>
        /\ Len(events) = ClaimOffset(Len(claims) + 1) + 1
        /\ events[1] = SessionCreatedEvent
        /\ events[2] = ClaimsExtractedEvent(claims)
        /\ \A i \in 1..Len(claims) : ClaimEventsInOrder(i)
        /\ events[Len(events)].type = "settlement"

\* the verifier calls started for the claim of the current iteration
StartedNow == Cardinality({i \in AgentIdx : tasks[i] # Pending})

\* the claims before the current one have been scored, in extracted order,
\* and each of them had all its verifier calls
EarlierClaimsScored ==
    /\ Len(all_verifications) = claim_idx - 1
    /\ calls.aggregate_risk = claim_idx - 1
    /\ \A i \in 1..(claim_idx - 1) : all_verifications[i].claim = claims[i]
    /\ calls.verify = NumAgents * (claim_idx - 1) + StartedNow

\* C13: in both modes claims are processed in extracted order one at a time:
\* no verifier call for claim j starts until every verifier call for each
\* earlier claim has completed or failed and that claim has been scored by
\* aggregate_risk.
C13_ClaimsOneAtATime ==
    [][/\ calls'.verify > calls.verify => EarlierClaimsScored
       /\ calls'.aggregate_risk > calls.aggregate_risk =>
              \A i \in AgentIdx : tasks[i].status \in {"returned", "raised"}]_vars

C13_Witness ==
    /\ mode = "batch"
    /\ claim_idx = 2
    /\ StartedNow > 0
    /\ Len(all_verifications) = 1
    /\ \E i \in AgentIdx : tasks[i] = Running

\* the map the running verifiers hold as context["other_assessments"]
ContextAssessments == Context(CurrentClaim).other_assessments

\* C14: in both modes, whenever a verifier is running for claim N, the
\* accumulated-assessments map it receives contains entries only for claims
\* that precede N and are already scored: never one for claim N itself or
\* for a later claim.
C14_ContextOnlyScoredClaims ==
    (pc = "verifying" /\ \E i \in AgentIdx : tasks[i] = Running) =>
        \A k \in DOMAIN ContextAssessments :
            \E i \in 1..(claim_idx - 1) :
                /\ claims[i].id = k
                /\ i <= Len(all_verifications)

\* the entries of all_assessments for the claims extracted before c
EarlierAssessments(c) ==
    [k \in {d \in DOMAIN all_assessments : d < c.id} |-> all_assessments[k]]

\* the ConsistencyBot assessments among those scored for a verification
ConsistencyAssessments(v) ==
    {v.assessments[k] : k \in {i \in 1..Len(v.assessments) :
                                   v.assessments[i].agent_name = "ConsistencyBot"}}

\* C15: the ConsistencyBot assessment for claim N never depends on
\* assessments of a claim scheduled after N: whatever the verifiers return
\* for later claims, claim N's findings, position and confidence are those
\* computed from the assessments of the claims processed before N.
C15_ConsistencyIgnoresLaterClaims ==
    \A j \in 1..Len(all_verifications) :
        LET v == all_verifications[j]
            c == v.claim
        IN  \A a \in ConsistencyAssessments(v) :
                a = ConsistencyBot_verify(c, [other_claims |-> OtherClaims(c),
                                              other_assessments |-> EarlierAssessments(c)])

C15_Witness ==
    /\ Len(all_verifications) = 2
    /\ shared_entities(claims[1].text, claims[2].text)
    /\ 2 \in DOMAIN all_assessments
    /\ CountSide(all_assessments[2], "SHORT") >= 2
    /\ \E a \in ConsistencyAssessments(all_verifications[1]) : a.position = "LONG"
    /\ \E a \in ConsistencyAssessments(all_verifications[2]) :
           CountFindingTypes(a.findings, {"INCONSISTENCY"}) > 0

\* C16: in both modes, when a verifier raises while assessing a claim, that
\* verifier is left out of the claim's aggregation, the claim is still scored
\* from the remaining assessments, all later claims are still processed, and
\* the run ends with the resolved overall action and a settlement; the error
\* never reaches the caller.
C16_VerifierErrorContained ==
    /\ pc # "raised"
    /\ (Finished /\ claims # <<>>) =>
           /\ Len(all_verifications) = Len(claims)
           /\ session.overall_action = determine_overall_action(all_verifications)
           /\ session.settlement # NoSettlement

\* ------------------------------------------------------------------------
\* Properties of NumericVerifier.verify
\* ------------------------------------------------------------------------
\* the call of verify is over: its value or exception has reached the caller
NumericDone == nv_call.made /\ nv_stack = <<>> /\ nv_signal # NoSignal

\* the external reasoning call is reachable under the settings: non-demo
\* mode, a key, and the supported provider
LlmReachable ==
    /\ ~config.DEMO_MODE
    /\ config.ANTHROPIC_API_KEY \/ config.OPENAI_API_KEY
    /\ config.LLM_PROVIDER = "anthropic"

\* C17: NumericVerifier.verify always terminates and returns an assessment
\* without raising, for every combination of demo mode, provider and keys;
\* whenever the external reasoning call is unavailable or fails it returns
\* the heuristic-path assessment after finitely many steps.
C17_VerifyTerminates ==
    /\ <>NumericDone
    /\ [](NumericDone =>
            /\ nv_signal.kind = "return"
            /\ (nv_log > 0 \/ ~LlmReachable) =>
                   nv_signal.value = HeuristicAssessment(nv_call.claim, nv_call.context))

C17_Witness ==
    /\ NumericDone
    /\ config.LLM_PROVIDER = "openai"
    /\ nv_log > 0
    /\ nv_signal.kind = "return"

\* ------------------------------------------------------------------------
\* Properties of settle
\* ------------------------------------------------------------------------
SettleDone == st_args # NoCall /\ st_result # NoSettlement

\* the external settlement service is configured
SphinxConfigured == ~config.DEMO_MODE /\ config.SPHINX_API_KEY

\* the fields a well-formed answer of the service carries
SphinxFields == {"confidence", "supporting", "contradicting", "neutral", "recommendation"}

\* the call failed, or its body is not JSON, or JSON with missing or
\* unexpected fields
FailedOrMalformed(r) == r.status # "object" \/ DOMAIN r.data # SphinxFields

\* C18: when the external settlement service is configured, every failure of
\* the call and every malformed response makes settle return exactly the
\* Settlement the local tally-based generator produces for the same
\* verifications and overall action.
C18_MalformedFallsBackToLocal ==
    (SettleDone /\ SphinxConfigured /\ FailedOrMalformed(st_response)) =>
        st_result = settle_local(st_args.verifications, st_args.overall_action)

\* the confidences of the assessments of the verifications vs
AssessmentConfidences(vs) ==
    UNION {{vs[j].assessments[k].confidence : k \in 1..Len(vs[j].assessments)} :
               j \in 1..Len(vs)}

\* C20: in every session produced by the pipeline every confidence lies in
\* [0,1]: that of each AgentAssessment and that of the Settlement, whether
\* the settlement came from the external service or from the local fallback.
C20_ConfidencesInRange ==
    SettleDone =>
        /\ \A x \in AssessmentConfidences(st_args.verifications) : x >= 0 /\ x <= 100
        /\ st_result.confidence >= 0 /\ st_result.confidence <= 100

\* ------------------------------------------------------------------------
\* Properties of RetrieverAgent.verify
\* ------------------------------------------------------------------------
RetrieverDone == rt_call # NoCall /\ rt_result # NoCall

\* what a caller sees of an assessment: position, confidence, finding kinds
CallerView(a) ==
    [position |-> a.position, confidence |-> a.confidence,
     kinds |-> [i \in 1..Len(a.findings) |-> a.findings[i].type]]

\* C19: the real-backend path and the lexical-overlap fallback use the same
\* per-corpus thresholds and the same rule from the counts to position and
\* confidence, so for equal similarity values per corpus entry both return
\* the same position, confidence and finding kinds.
C19_BackendsAgree ==
    RetrieverDone =>
        /\ CallerView(rt_result.value) = CallerView(verify_actian(rt_call))
        /\ CallerView(rt_result.value) = CallerView(verify_mock(rt_call))

\* ------------------------------------------------------------------------
\* Properties of the fan-out of one claim
\* ------------------------------------------------------------------------
\* RetrieverAgent's coroutine is the next to read config
RetrieverReadsNext == rt_result = NoCall /\ (NumericSuspended \/ NumericReturned)

\* C21: the verifiers of one fan-out share no mutable state: no verifier
\* writes state (context or global configuration) that another verifier of
\* the same fan-out reads. RetrieverAgent reads config.DEMO_MODE, so it must
\* find there the value the fan-out started with.
C21_NoSharedMutableState ==
    \A b \in BOOLEAN :
        (config.DEMO_MODE = b) => [](RetrieverReadsNext => config.DEMO_MODE = b)

\* ------------------------------------------------------------------------
\* Properties of the DEMO_MODE override of NumericVerifier
\* ------------------------------------------------------------------------
\* C30: the temporary override of config.DEMO_MODE in the fallback of
\* _verify_with_llm is always undone: when verify returns, config.DEMO_MODE
\* has the value it had before the call.
C30_OverrideUndone ==
    \A b \in BOOLEAN :
        (config.DEMO_MODE = b) => [](NumericDone => config.DEMO_MODE = b)

\* ------------------------------------------------------------------------
\* Properties of the sessions the orchestrator produces
\* ------------------------------------------------------------------------
\* every assessment of the verifications vs is labelled with its claim
OwnAssessments(vs) ==
    \A i \in 1..Len(vs) :
        \A k \in 1..Len(vs[i].assessments) :
            vs[i].assessments[k].claim_id = vs[i].claim.id

\* C22: in every session produced by either mode, every assessment listed in
\* a ClaimVerification has claim_id equal to the id of that verification's
\* claim; an assessment produced for one claim never appears in another
\* claim's verification.
C22_AssessmentsBelongToClaim ==
    /\ OwnAssessments(all_verifications)
    /\ OwnAssessments(session.verifications)

C22_Witness ==
    /\ Finished
    /\ mode = "streaming"
    /\ Len(session.verifications) = 2
    /\ Len(session.verifications[1].assessments) = NumAgents
    /\ Len(session.verifications[2].assessments) = NumAgents
    /\ session.verifications[2].assessments[1].claim_id = claims[2].id

\* ------------------------------------------------------------------------
\* Properties of the heuristic path of NumericVerifier
\* ------------------------------------------------------------------------
\* the call was answered by the heuristic path
HeuristicMode == nv_log > 0 \/ ~LlmReachable

\* the text states a percentage above the anomaly bound
StatesHighPercentage(text) ==
    \E i \in 1..Len(text.numbers) :
        text.numbers[i].unit = "%" /\ text.numbers[i].num > 25

\* the comparison with the ground truth of the context finds a contradiction
GroundTruthContradicts(call) ==
    /\ call.context.has_ground_truth
    /\ \E i \in 1..Len(call.claim.text.numbers) :
           LET n == call.claim.text.numbers[i]
           IN  /\ n.unit = "%"
               /\ call.context.ground_truth.has_actual_pct
               /\ Abs(n.num - call.context.ground_truth.actual_pct) > 5

LocalSettlement == ~SphinxConfigured \/ st_response.status # "object"

\* the kinds of the findings of the assessments as, one entry per finding
RECURSIVE KindsOfAssessments(_)
KindsOfAssessments(as) ==
    IF as = <<>> THEN <<>>
    ELSE [i \in 1..Len(Head(as).findings) |-> Head(as).findings[i].type]
         \o KindsOfAssessments(Tail(as))

\* the kinds of all findings of the session, one entry per finding
RECURSIVE KindsOfSession(_)
KindsOfSession(vs) ==
    IF vs = <<>> THEN <<>>
    ELSE KindsOfAssessments(Head(vs).assessments) \o KindsOfSession(Tail(vs))

\* number of entries of the sequence kinds that lie in the set S
CountIn(kinds, S) == Len(SelectSeq(kinds, LAMBDA k : k \in S))

\* C24: the local settlement counts every finding of every assessment of
\* every verification exactly once, by kind: confirmed, supports and
\* consistent as supporting; contradiction, not-found and inconsistency as
\* contradicting; flag and pattern as neutral; hence the three tallies add
\* up to the total number of findings in the session.
C24_LocalTallyCountsEveryFinding ==
    (SettleDone /\ LocalSettlement) =>
        LET kinds == KindsOfSession(st_args.verifications)
        IN  /\ st_result.evidence_supporting =
                   CountIn(kinds, {"CONFIRMED", "SUPPORTS", "CONSISTENT"})
            /\ st_result.evidence_contradicting =
                   CountIn(kinds, {"CONTRADICTION", "NOT_FOUND", "INCONSISTENCY"})
            /\ st_result.evidence_neutral = CountIn(kinds, {"FLAG", "PATTERN"})
            /\ st_result.evidence_supporting + st_result.evidence_contradicting
                   + st_result.evidence_neutral = Len(kinds)

C24_Witness ==
    /\ SettleDone /\ LocalSettlement
    /\ Len(st_args.verifications) = 2
    /\ st_result.evidence_supporting = 2
    /\ st_result.evidence_contradicting = 2
    /\ st_result.evidence_neutral = 1

\* ------------------------------------------------------------------------
\* Properties of ConsistencyBot
\* ------------------------------------------------------------------------
\* the assessments ConsistencyBot has returned in this run: those scored,
\* and that of the current iteration
ConsistencyReturned ==
    UNION {ConsistencyAssessments(all_verifications[j]) : j \in 1..Len(all_verifications)}
    \cup {tasks[i].value : i \in {k \in AgentIdx : /\ ALL_AGENTS[k] = "ConsistencyBot"
                                                    /\ tasks[k].status = "returned"}}

\* position and confidence of a follow the precedence inconsistency or
\* contradiction, then flag, then clean pass
StrictPrecedence(a) ==
    LET inconsistencies == CountFindingTypes(a.findings, {"INCONSISTENCY", "CONTRADICTION"})
        flags == CountFindingTypes(a.findings, {"FLAG"})
    IN  IF inconsistencies > 0
        THEN a.position = "SHORT" /\ a.confidence = Min(95, 65 + 12 * inconsistencies)
        ELSE IF flags > 0
        THEN a.position = "SHORT" /\ a.confidence = Min(80, 50 + 10 * flags)
        ELSE /\ a.position = "LONG" /\ a.confidence = 70
             /\ CountFindingTypes(a.findings, {"CONSISTENT"}) = 1

\* C25: ConsistencyBot derives position and confidence in strict
\* precedence: with at least one inconsistency or contradiction finding the
\* result is believes-false with confidence min(0.95, 0.65 + 0.12 x their
\* count), whatever the number of flags; else with at least one flag it is
\* believes-false with confidence min(0.80, 0.50 + 0.10 x flags); else it is
\* believes-true with confidence 0.70 and exactly one consistent finding.
C25_ConsistencyPrecedence == \A a \in ConsistencyReturned : StrictPrecedence(a)

C25_Witness ==
    /\ \E a \in ConsistencyReturned :
           /\ CountFindingTypes(a.findings, {"INCONSISTENCY"}) = 1
           /\ CountFindingTypes(a.findings, {"FLAG"}) = 1
           /\ a.position = "SHORT" /\ a.confidence = 77
    /\ \E a \in ConsistencyReturned :
           /\ CountFindingTypes(a.findings, {"INCONSISTENCY"}) = 0
           /\ CountFindingTypes(a.findings, {"FLAG"}) = 1
           /\ a.position = "SHORT" /\ a.confidence = 60

\* ------------------------------------------------------------------------
\* Batch and streaming mode against one reference
\* ------------------------------------------------------------------------
\* no verifier failed in the finished run: every claim has an assessment of
\* every registered verifier
NoVerifierFailed ==
    /\ Finished
    /\ claims # <<>>
    /\ \A i \in 1..Len(claims) :
           /\ claims[i].id \in DOMAIN all_assessments
           /\ Len(all_assessments[claims[i].id]) = NumAgents

\* the verifications of the loop of run_verification over the claims from
\* the i-th on, where the verifiers other than ConsistencyBot answer claim by
\* claim as they did in this run and ConsistencyBot is computed from the
\* accumulated entries acc
RECURSIVE ReferenceFrom(_, _)
ReferenceFrom(i, acc) ==
    IF i > Len(claims) THEN <<>>
    ELSE LET c == claims[i]
             as == [k \in AgentIdx |->
                        IF ALL_AGENTS[k] = "ConsistencyBot"
                        THEN ConsistencyBot_verify(c, [other_claims |-> OtherClaims(c),
                                                       other_assessments |-> acc])
                        ELSE all_assessments[c.id][k]]
         IN  <<aggregate_risk(c, as)>> \o ReferenceFrom(i + 1, DictPut(acc, c.id, as))

ReferenceVerifications == ReferenceFrom(1, <<>>)

\* C26: batch and streaming mode are the same state machine: for the same
\* ordered claims and verifiers that return the same assessments and do not
\* fail, the risk_score, verdict and action of each streaming risk-update
\* event and the overall action of the settlement event equal those of the
\* session batch mode returns. Both are compared with the one sequence of
\* verifications the claims and the verifiers' answers determine.
C26_ModesAgree ==
    NoVerifierFailed =>
        LET ref == ReferenceVerifications
        IN  /\ mode = "batch" =>
                   /\ session.verifications = ref
                   /\ session.overall_action = determine_overall_action(ref)
            /\ mode = "streaming" =>
                   /\ \A i \in 1..Len(claims) :
                          events[ClaimOffset(i) + NumAgents + 1] = RiskUpdateEvent(ref[i])
                   /\ events[Len(events)].type = "settlement"
                   /\ events[Len(events)].overall_action = determine_overall_action(ref)

C26_Witness ==
    /\ NoVerifierFailed
    /\ mode = "streaming"
    /\ Len(claims) = 2
    /\ events[ClaimOffset(1) + NumAgents + 1].action = "BLOCK"
    /\ events[ClaimOffset(2) + NumAgents + 1].action = "REWRITE"
    /\ \E a \in ConsistencyAssessments(all_verifications[2]) :
           CountFindingTypes(a.findings, {"INCONSISTENCY"}) > 0
    /\ events[Len(events)].overall_action = "BLOCK"

\* ------------------------------------------------------------------------
\* Properties of the accumulated state
\* ------------------------------------------------------------------------
\* the verification list follows the order of the claims
VerificationsInClaimOrder ==
    /\ Len(all_verifications) <= Len(claims)
    /\ \A i \in 1..Len(all_verifications) : all_verifications[i].claim = claims[i]

\* a step keeps what is accumulated for every claim scored before it
EarlierClaimsKept ==
    \A i \in 1..Len(all_verifications) :
        /\ Len(all_verifications') >= i
        /\ all_verifications'[i] = all_verifications[i]
        /\ claims[i].id \in DOMAIN all_assessments
        /\ claims[i].id \in DOMAIN all_assessments'
        /\ all_assessments'[claims[i].id] = all_assessments[claims[i].id]

\* C27: the accumulated state is append-only: in both modes, processing
\* claim j leaves unchanged the accumulated-assessments entries and the
\* ClaimVerification (risk_score, verdict, action, assessments) of every
\* earlier claim i < j, and the order of the verification list equals the
\* order of the claims.
C27_AppendOnly ==
    /\ [](VerificationsInClaimOrder)
    /\ [][EarlierClaimsKept]_vars

C27_Witness ==
    /\ mode = "streaming"
    /\ pc = "resolving"
    /\ Len(all_verifications) = 2
    /\ all_verifications[1].claim = claims[1]
    /\ all_verifications[2].claim = claims[2]
    /\ all_verifications[1].action # all_verifications[2].action
    /\ Len(all_assessments[1]) = NumAgents
    /\ Len(all_assessments[2]) = NumAgents

\* ------------------------------------------------------------------------
\* Verdict and action of aggregate_risk
\* ------------------------------------------------------------------------
\* C28: in every ClaimVerification returned by aggregate_risk, verdict=true
\* holds exactly when action=allow and verdict=false implies action=block;
\* the pair (verdict=uncertain, action=block) occurs only for the
\* no-assessments result, and otherwise verdict=uncertain occurs exactly
\* with action=rewrite.
C28_VerdictMatchesAction ==
    Returned =>
        /\ verification.verdict = "TRUE" <=> verification.action = "ALLOW"
        /\ verification.verdict = "FALSE" => verification.action = "BLOCK"
        /\ (verification.verdict = "UNCERTAIN" /\ verification.action = "BLOCK") =>
               (assessments = <<>> /\ verification.rationale = "no_assessments")
        /\ assessments # <<>> =>
               (verification.verdict = "UNCERTAIN" <=> verification.action = "REWRITE")

C28_Witness ==
    /\ Returned
    /\ Len(assessments) = 2
    /\ Split(assessments)
    /\ verification.verdict = "UNCERTAIN"
    /\ verification.action = "REWRITE"

\* ------------------------------------------------------------------------
\* Order of the assessments
\* ------------------------------------------------------------------------
\* the assessments in the order p
Reordered(as, p) == [i \in 1..Len(as) |-> as[p[i]]]

\* C29: the risk_score, verdict and action returned by aggregate_risk do not
\* depend on the order of the assessments: every permutation of the list
\* gives the same three values.
C29_OrderIndependent ==
    Returned =>
        \A p \in Permutations(1..Len(assessments)) :
            LET other == aggregate_risk_binary64(claim, Reordered(assessments, p))
            IN  /\ other.risk_score = verification.risk_score
                /\ other.verdict = verification.verdict
                /\ other.action = verification.action

====
